---- MODULE Spec2Model ----
(***************************************************************************)
(* A model of the Axe interpreter: the Calculator's memory                 *)
(* (axe/calculator.py), the flattener and driver loop of the Interpreter   *)
(* and the Code object (axe/interpreter.py), the AST shapes the parser     *)
(* builds (axe/parser.py) and the REPL loop of axe.interpreter.test.       *)
(*                                                                         *)
(* Closures appended to Code are modelled as records naming the closure    *)
(* and holding what it captured; the thunks they capture are the AST       *)
(* nodes they were flattened from, evaluated by Eval.                      *)
(***************************************************************************)
EXTENDS Integers, Sequences, FiniteSets, TLC

VARIABLES
    memory,       \* Calculator._memory: the slots that hold a nonzero value
    screen,       \* the image the window shows: the pixels of each colour
    time,         \* Calculator.time: the clock-tick accumulator of sanity_check
    events,       \* pygame's event queue: the number of pending QUIT events
    code,         \* Code.code: the flattened steps
    labels,       \* Code.labels
    next_token,   \* Code.next_token
    out,          \* the local "out" of Interpreter.run
    pc,           \* where the main thread of test() is
    text,         \* the local "text" of test()
    thread_text,  \* the global _thread_text
    thread,       \* the state of the _console_thread
    stdout,       \* what has been printed
    runs,         \* the number of Interpreter.execute calls so far
    call,         \* the last direct call of a Calculator method
    ncalls        \* the number of direct calls so far

vars == <<memory, screen, time, events, code, labels, next_token, out, pc, text,
          thread_text, thread, stdout, runs, call, ncalls>>

calc_vars == <<memory, time, events>>
code_vars == <<code, labels, next_token, out>>
repl_vars == <<pc, text, thread_text, thread, stdout, runs>>
call_vars == <<call, ncalls>>

(***************************************************************************)
(* Bounds of the model.                                                    *)
(***************************************************************************)
AddrSpan == 1   \* addresses are drawn this far from each end of memory
ValSpan == 1    \* values are drawn this far around 0, 256 and 65536
MaxCalls == 2   \* direct Calculator calls in one behaviour
ForSpan == 3    \* For loops run at most this many iterations past the first
MaxStdout == 8  \* lines a session prints before the model stops stepping
MaxRuns == 2    \* programs executed in one REPL session
MaxEvents == 1  \* QUIT events the window receives
TickMs == 150   \* the longest time between two sanity checks
SideSpan == 3   \* the largest number a program with ++, -- or ^^2 starts with
MaxSeq == 2     \* calls of the Calculator's methods in one behaviour
CacheSpan == 2  \* the largest end of a For loop whose pointer is {B}^^r
MaxSteps == 60  \* steps of the run that is compared with
RepeatSpan == 3 \* the largest count a Repeat program counts up to
IfSpan == 2     \* the largest second number of an If program
ExprSpan == 3   \* the operands of expressions are 0..ExprSpan
MaxDraws == 2   \* direct drawing calls in one behaviour

(***************************************************************************)
(* Calculator memory (axe/calculator.py).                                  *)
(***************************************************************************)
memory_size == 256 * 256 - 1

\* array.array('H', [0 for i in xrange(self._memory_size)]): every slot is 0.
init_memory == [a \in {} |-> 0]

\* Python's list/array indexing: -len..-1 count from the end, anything
\* outside -len..len-1 raises IndexError.
index_ok(loc) == loc >= -memory_size /\ loc < memory_size

slot(loc) == IF loc < 0 THEN loc + memory_size ELSE loc

\* self._memory[loc]
mem_read(m, loc) == IF slot(loc) \in DOMAIN m THEN m[slot(loc)] ELSE 0

\* self._memory[loc] = v
mem_write(m, loc, v) ==
    IF v # 0 THEN (slot(loc) :> v) @@ m
    ELSE IF slot(loc) \notin DOMAIN m THEN m
    ELSE [a \in DOMAIN m \ {slot(loc)} |-> m[a]] @@ init_memory

\* The result of a Calculator method: the memory it leaves, the value it
\* returns and the exception it raises ("none" when it returns).
Result(m, r, e) == [mem |-> m, ret |-> r, err |-> e]

\* A local name for the value of v in K.  v is evaluated once, as the
\* statement that assigns a local does it.
With(v, K(_)) == CHOOSE y \in {K(x) : x \in {v}} : TRUE

\* Sequencing, as Python's statements do it: K is what follows once r has
\* returned; when r raised, nothing follows and r is the outcome.
Then(r, K(_)) == With(r, LAMBDA x : IF x.err # "none" THEN x ELSE K(x))

\* a faulty set_var_1: the slot after location is cleared too
set_var_1_clears_next(m, location, value) ==
    IF ~index_ok(location) THEN Result(m, 0, "IndexError")
    ELSE Result(mem_write(mem_write(m, location, value % 256),
                          IF index_ok(location + 1) THEN location + 1
                          ELSE location, IF index_ok(location + 1) THEN 0
                                         ELSE value % 256),
                value, "none")

set_var_1(m, location, value) ==
    IF ~index_ok(location) THEN Result(m, 0, "IndexError")
    ELSE Result(mem_write(m, location, value % 256), value, "none")

\* a faulty set_var_2: the value is not wrapped before it is split
set_var_2_high_unwrapped(m, location, value) ==
    IF ~index_ok(location) THEN Result(m, 0, "IndexError")
    ELSE IF ~index_ok(location + 1)
         THEN Result(mem_write(m, location, value % 256), 0, "IndexError")
    ELSE Result(mem_write(mem_write(m, location, value % 256),
                          location + 1, value \div 256),
                value % 65536, "none")

\* a faulty set_var_2: the high slot gets the low byte
set_var_2_low_twice(m, location, value) ==
    IF ~index_ok(location) THEN Result(m, 0, "IndexError")
    ELSE IF ~index_ok(location + 1)
         THEN Result(mem_write(m, location, (value % 65536) % 256), 0,
                     "IndexError")
    ELSE Result(mem_write(mem_write(m, location, (value % 65536) % 256),
                          location + 1, (value % 65536) % 256),
                value % 65536, "none")

set_var_2(m, location, value) ==
    IF ~index_ok(location) THEN Result(m, 0, "IndexError")
    ELSE IF ~index_ok(location + 1)
         THEN Result(mem_write(m, location, (value % 65536) % 256), 0,
                     "IndexError")
    ELSE Result(mem_write(mem_write(m, location, (value % 65536) % 256),
                          location + 1, (value % 65536) \div 256),
                value % 65536, "none")

get_var_1(m, location) ==
    IF ~index_ok(location) THEN Result(m, 0, "IndexError")
    ELSE Result(m, mem_read(m, location), "none")

get_var_2(m, location) ==
    IF ~index_ok(location) \/ ~index_ok(location + 1)
    THEN Result(m, 0, "IndexError")
    ELSE Result(m, mem_read(m, location) + mem_read(m, location + 1) * 256,
                "none")

(***************************************************************************)
(* The AST (axe/parser.py).  A node is a record; "name" is the node's      *)
(* name, by which Interpreter.flatten dispatches.  Where the code asks for *)
(* the Python type of a value (type(ast.value) == int, isinstance(target,  *)
(* basestring)), the node carries that type in a field of its own.         *)
(***************************************************************************)
constants ==
    [START |-> 0, AZ_VARS |-> 35254, R_VARS |-> 33701, CONSTS |-> 40000,
     L1 |-> 34540, L2 |-> 35386, L3 |-> 39026, L4 |-> 33445, L5 |-> 34056,
     L6 |-> 37696, TEMP |-> 2000]

var_order == <<"A", "B", "C", "D", "E", "F", "G", "H", "I", "J", "K", "L",
               "M", "N", "O", "P", "Q", "R", "S", "T", "U", "V", "W", "X",
               "Y", "Z", "THETA">>

\* Expression(value) with an integer value
Expression(value) == [name |-> "expression", type |-> "int", value |-> value]

\* Expression(value) with a node as its value, e.g. Expression(Command('rand'))
ExpressionOf(node) == [name |-> "expression", type |-> "node", value |-> node]

\* Operation(op, *args); the op setter lower-cases the token's value
Operation(op, args) == [name |-> "operation", op |-> op, args |-> args]

\* Pointer(offset, size, const): with a region, offset is a number and the
\* address is region + offset; with 'START', offset is an Expression.
Pointer(offset, size, const) ==
    [name |-> "pointer", size |-> size,
     address |-> IF const # "START"
                 THEN Operation("add", <<Expression(constants[const]),
                                         Expression(offset)>>)
                 ELSE offset]

Assignment(value, pointer) ==
    [name |-> "assignment", value |-> value, pointer |-> pointer]

Node(name, children) == [name |-> name, children |-> children]

Line(child) == Node("line", <<child>>)

Control(name, children) == [name |-> name, children |-> children]

Command(name, children) == [name |-> name, children |-> children]

\* Drawing(name, buf, start_x, start_y, **kwargs), Buffer(name, buf, **kwargs)
Drawing(name, buf, start_x, start_y, kwargs) ==
    [name |-> name, buf |-> buf, start_x |-> start_x, start_y |-> start_y,
     kwargs |-> kwargs]

Buffer(name, buf, kwargs) == [name |-> name, buf |-> buf, kwargs |-> kwargs]

no_kwargs == [k \in {} |-> 0]

\* p_line_pxl: PXL_ON | PXL_OFF | PXL_CHANGE ( expression , expression );
\* the token's value, lower-cased, is the node's name
p_line_pxl(name, x, y) ==
    Line(Drawing(name, Pointer(0, 2, "L6"), x, y, no_kwargs))

\* p_line_rect: RECT | RECTI ( x , y , width , height )
p_line_rect(name, x, y, w, h) ==
    Line(Drawing(name, Pointer(0, 2, "L6"), x, y,
                 [width |-> w, height |-> h]))

\* p_line_circle
p_line_circle(x, y, radius) ==
    Line(Drawing("circle", Pointer(0, 2, "L6"), x, y, [radius |-> radius]))

\* p_line_line
p_line_line(x, y, end_x, end_y) ==
    Line(Drawing("draw_line", Pointer(0, 2, "L6"), x, y,
                 [end_x |-> end_x, end_y |-> end_y]))

\* p_tempexpression_pxl_test
p_tempexpression_pxl_test(x, y) ==
    ExpressionOf(Drawing("pxl_test", Pointer(0, 2, "L6"), x, y, no_kwargs))

\* p_line_dispgraph_monoscale
p_line_dispgraph_monoscale ==
    Line(Buffer("dispgraph", Pointer(0, 2, "L6"), [state |-> Expression(2)]))

\* p_line_dispgraph_3scale
p_line_dispgraph_3scale ==
    Line(Buffer("dispgraph", Pointer(0, 2, "L6"),
                [backbuffer |-> Pointer(0, 2, "L3"), state |-> Expression(3)]))

\* p_line_dispgraph_4scale
p_line_dispgraph_4scale ==
    Line(Buffer("dispgraph", Pointer(0, 2, "L6"),
                [backbuffer |-> Pointer(0, 2, "L3"), state |-> Expression(4)]))

\* p_line_clrdraw_buffer
p_line_clrdraw_buffer == Line(Buffer("clrdraw", Pointer(0, 2, "L6"), no_kwargs))

\* p_pointer_map_var: the letter after 'VAR_' is a width-2 pointer in AZ_VARS
p_pointer_map_var(var) ==
    Pointer(((CHOOSE k \in 1..Len(var_order) : var_order[k] = var) - 1) * 2,
            2, "AZ_VARS")

\* p_operation: expression operator factor
\* a faulty p_operation: the new operator binds to the last operand
p_operation_binds_right(left, op, right) ==
    IF left.name = "operation"
    THEN Operation(left.op, <<left.args[1],
                              Operation(op, <<left.args[2], right>>)>>)
    ELSE Operation(op, <<left, right>>)

p_operation(left, op, right) == Operation(op, <<left, right>>)

\* p_operation_double: expression TWOMODIFIER; the node p[1] is both
\* operands
p_operation_double(e) == Operation("mul", <<e, e>>)

\* p_expression_increment, p_expression_decrement: pointer INCREMENT,
\* pointer DECREMENT
p_expression_increment(pointer) ==
    Assignment(Operation("add", <<pointer, Expression(1)>>), pointer)

p_expression_decrement(pointer) ==
    Assignment(Operation("sub", <<pointer, Expression(1)>>), pointer)

\* p_expression_assignment_start: expression ASSIGN pointer
p_expression_assignment_start(value, pointer) == Assignment(value, pointer)

\* p_line_disp: DISP expression newline
p_line_disp(e) == Line(Command("disp", <<e>>))

\* p_control_label / p_control_goto: LBL NAME newline, GOTO NAME newline
p_control_label(target) == Line(Control("label", [target |-> target]))

p_control_goto(target) ==
    Line(Control("goto", [target |-> target, target_type |-> "str"]))

p_control_goto_expression(e) ==
    Line(Control("goto", [target |-> e, target_type |-> "node"]))

\* p_expression_label_get_address: LMODIFIER NAME
p_expression_label_get_address(name) ==
    ExpressionOf(Node("get_label", <<name>>))

p_control_while(condition, body) ==
    Control("while", [condition |-> condition, body |-> body])

p_control_repeat(condition, body) ==
    Control("repeat", [condition |-> condition, body |-> body])

\* p_control_if_single: IF expression newline block END newline
p_control_if_single(condition, body) ==
    Control("if", [condition |-> condition, body |-> body])

\* p_control_if_double: IF expression newline block ELSE newline block END
\* newline; the body is Node('body', p[4], p[7])
p_control_if_double(condition, body, orelse) ==
    Control("if_else", [condition |-> condition,
                        body |-> Node("body", <<body, orelse>>)])

p_node_full_for(pointer, start, end, body) ==
    Control("for", [pointer |-> pointer, start |-> start, end |-> end,
                    increment |-> Expression(1), body |-> body])

\* what a production that raises leaves instead of a node
Raise(err) == [name |-> "raise", err |-> err]

\* p_node_const_for: FOR ( expression ) newline block END newline.  The
\* action declares "global temp_counter" and reads it for the pointer's
\* offset; the module defines _temp_counter only, so the read raises
\* NameError and no node is built.
p_node_const_for(end, body) == Raise("NameError")

\* block : line | control, merged by block : block block
Block(children) == Node("block", children)

\* program : block
Program(block) == Node("program", <<block>>)

(***************************************************************************)
(* Expression thunks (axe/interpreter.py).  Eval(L, m, e) is what calling  *)
(* the thunk flattened from e does with the label map L and memory m.      *)
(***************************************************************************)
\* Python 2's operator.div and operator.mod on ints: floor division
py_div(a, b) == IF b > 0 THEN a \div b ELSE (-a) \div (-b)

py_mod(a, b) == IF b > 0 THEN a % b ELSE -((-a) % (-b))

bool(b) == IF b THEN 1 ELSE 0

\* getattr(operator, ast.op)(s_seed, s_term); comparisons give True/False,
\* which are the integers 1/0 in every later use.
operation(op, a, b) ==
    CASE op = "add" -> a + b
      [] op = "sub" -> a - b
      [] op = "mul" -> a * b
      [] op = "div" -> py_div(a, b)
      [] op = "mod" -> py_mod(a, b)
      [] op = "lt" -> bool(a < b)
      [] op = "le" -> bool(a <= b)
      [] op = "eq" -> bool(a = b)
      [] op = "ne" -> bool(a # b)
      [] op = "gt" -> bool(a > b)
      [] op = "ge" -> bool(a >= b)

(***************************************************************************)
(* Calculator graphics (axe/calculator.py).  A buffer is 768 slots of      *)
(* memory; slot buf + 12 * y + x div 8 holds pixels 8 * (x div 8) ..       *)
(* 8 * (x div 8) + 7 of row y, pixel x in bit x mod 8.                     *)
(***************************************************************************)
\* Calculator(): pixel_size=3, and the size setter turns size=(96,64) into
\* computer pixels
pixel_size == 3

_size == <<96 * pixel_size, 64 * pixel_size>>

_buffer_size ==
    py_div(py_div(_size[1], pixel_size) * py_div(_size[2], pixel_size), 8)

actual_size == py_div(_size[1], pixel_size)

\* Calculator._get_bit2: (byte_value & (1 << index)) != 0
_get_bit2(byte_value, index) == (byte_value \div (2 ^ index)) % 2 = 1

\* Calculator._get_bit; True and False are the integers 1 and 0
_get_bit(m, loc, index) ==
    IF ~index_ok(loc) THEN Result(m, 0, "IndexError")
    ELSE Result(m, bool(_get_bit2(mem_read(m, loc), index)), "none")

\* a faulty _set_bit: the mask is 1 << (7 - offset)
_set_bit_msb_first(m, loc, offset) ==
    IF ~index_ok(loc) THEN Result(m, 0, "IndexError")
    ELSE Result(mem_write(m, loc,
                    IF _get_bit2(mem_read(m, loc), 7 - offset)
                    THEN mem_read(m, loc)
                    ELSE mem_read(m, loc) + 2 ^ (7 - offset)), 0, "none")

\* Calculator._set_bit: num | (1 << offset)
_set_bit(m, loc, offset) ==
    IF ~index_ok(loc) THEN Result(m, 0, "IndexError")
    ELSE Result(mem_write(m, loc,
                    IF _get_bit2(mem_read(m, loc), offset)
                    THEN mem_read(m, loc)
                    ELSE mem_read(m, loc) + 2 ^ offset), 0, "none")

\* Calculator._clear_bit: num & ~(1 << offset)
_clear_bit(m, loc, offset) ==
    IF ~index_ok(loc) THEN Result(m, 0, "IndexError")
    ELSE Result(mem_write(m, loc,
                    IF _get_bit2(mem_read(m, loc), offset)
                    THEN mem_read(m, loc) - 2 ^ offset
                    ELSE mem_read(m, loc)), 0, "none")

\* a faulty _flip_bit: the bit is set, not flipped
_flip_bit_sets(m, loc, offset) ==
    IF ~index_ok(loc) THEN Result(m, 0, "IndexError")
    ELSE Result(mem_write(m, loc,
                    IF _get_bit2(mem_read(m, loc), offset)
                    THEN mem_read(m, loc)
                    ELSE mem_read(m, loc) + 2 ^ offset), 0, "none")

\* Calculator._flip_bit: num ^ (1 << offset)
_flip_bit(m, loc, offset) ==
    IF ~index_ok(loc) THEN Result(m, 0, "IndexError")
    ELSE Result(mem_write(m, loc,
                    IF _get_bit2(mem_read(m, loc), offset)
                    THEN mem_read(m, loc) - 2 ^ offset
                    ELSE mem_read(m, loc) + 2 ^ offset), 0, "none")

\* the callbacks of rect, clear_rect and inverse_rect
draw_solid(m, buf, index) == _set_bit(m, buf, index)

draw_clear(m, buf, index) == _clear_bit(m, buf, index)

draw_inverse(m, buf, index) == _flip_bit(m, buf, index)

\* callback(buf + xt + yt, i % 8) in _generic_rect
apply_callback(callback, m, buf, index) ==
    CASE callback = "draw_solid" -> draw_solid(m, buf, index)
      [] callback = "draw_clear" -> draw_clear(m, buf, index)
      [] callback = "draw_inverse" -> draw_inverse(m, buf, index)

RECURSIVE _generic_rect_i(_, _, _, _, _, _)
RECURSIVE _generic_rect_j(_, _, _, _, _, _, _)

\* Calculator._generic_rect, the inner loop: for i in xrange(i, stop), run
\* in order, the first half of the range before the second
_generic_rect_i(acc, buf, j, i, stop, callback) ==
    IF acc.err # "none" \/ i >= stop THEN acc
    ELSE IF stop = i + 1
    THEN apply_callback(callback, acc.mem,
             buf + py_div(i, 8) + py_div(py_div(j * _size[1], pixel_size), 8),
             py_mod(i, 8))
    ELSE With(_generic_rect_i(acc, buf, j, i, i + (stop - i) \div 2, callback),
              LAMBDA r: _generic_rect_i(r, buf, j, i + (stop - i) \div 2,
                                        stop, callback))

\* Calculator._generic_rect, the outer loop: for j in xrange(j, stop), run
\* in order, the first half of the range before the second
_generic_rect_j(acc, buf, x, w, j, stop, callback) ==
    IF acc.err # "none" \/ j >= stop THEN acc
    ELSE IF stop = j + 1 THEN _generic_rect_i(acc, buf, j, x, x + w, callback)
    ELSE With(_generic_rect_j(acc, buf, x, w, j, j + (stop - j) \div 2,
                              callback),
              LAMBDA r: _generic_rect_j(r, buf, x, w, j + (stop - j) \div 2,
                                        stop, callback))

\* Calculator._generic_rect(buf, coords, size, callback); the size argument
\* is wh here
_generic_rect(m, buf, coords, wh, callback) ==
    With(Result(m, 0, "none"), LAMBDA acc:
        _generic_rect_j(acc, buf, coords[1], wh[1], coords[2],
                        coords[2] + wh[2], callback))

\* Calculator.rect, clear_rect, inverse_rect
rect(m, buf, coords, wh) == _generic_rect(m, buf, coords, wh, "draw_solid")

clear_rect(m, buf, coords, wh) ==
    _generic_rect(m, buf, coords, wh, "draw_clear")

inverse_rect(m, buf, coords, wh) ==
    _generic_rect(m, buf, coords, wh, "draw_inverse")

\* abs = lambda x: -x if x < 0 else x
abs(x) == IF x < 0 THEN -x ELSE x

RECURSIVE line_loop(_, _, _, _, _, _, _, _, _)

\* Calculator.line, the loop: s holds x0, y0 and error
line_loop(m, buf, s, x1, y1, dx, dy, sx, sy) ==
    Then(rect(m, buf, <<s.x0, s.y0>>, <<1, 1>>), LAMBDA r:
        IF s.x0 = x1 /\ s.y0 = y1 THEN r
        ELSE With([x0 |-> IF 2 * s.error > -dy THEN s.x0 + sx ELSE s.x0,
                   y0 |-> IF 2 * s.error < dx THEN s.y0 + sy ELSE s.y0,
                   error |-> s.error
                               - (IF 2 * s.error > -dy THEN dy ELSE 0)
                               + (IF 2 * s.error < dx THEN dx ELSE 0)],
                  LAMBDA t: line_loop(r.mem, buf, t, x1, y1, dx, dy, sx, sy)))

\* Calculator.line (Bresenham); start and end are <<x, y>>
Calculator_line(m, buf, start, end) ==
    With([x0 |-> start[1], y0 |-> start[2],
          error |-> abs(end[1] - start[1]) - abs(end[2] - start[2])],
         LAMBDA s:
            line_loop(m, buf, s, end[1], end[2], abs(end[1] - start[1]),
                      abs(end[2] - start[2]),
                      IF start[1] < end[1] THEN 1 ELSE -1,
                      IF start[2] < end[2] THEN 1 ELSE -1))

RECURSIVE circle_loop(_, _, _, _, _)

\* Calculator.circle, the loop: s holds x, y and error
circle_loop(m, buf, xm, ym, s) ==
    IF s.y < s.x THEN Result(m, 0, "none")
    ELSE
    Then(rect(m, buf, <<xm - s.x, ym - s.y>>, <<1, 1>>), LAMBDA r1:
    Then(rect(r1.mem, buf, <<xm - s.y, ym - s.x>>, <<1, 1>>), LAMBDA r2:
    Then(rect(r2.mem, buf, <<xm + s.y, ym - s.x>>, <<1, 1>>), LAMBDA r3:
    Then(rect(r3.mem, buf, <<xm + s.x, ym - s.y>>, <<1, 1>>), LAMBDA r4:
    Then(rect(r4.mem, buf, <<xm - s.x, ym + s.y>>, <<1, 1>>), LAMBDA r5:
    Then(rect(r5.mem, buf, <<xm - s.y, ym + s.x>>, <<1, 1>>), LAMBDA r6:
    Then(rect(r6.mem, buf, <<xm + s.y, ym + s.x>>, <<1, 1>>), LAMBDA r7:
    Then(rect(r7.mem, buf, <<xm + s.x, ym + s.y>>, <<1, 1>>), LAMBDA r8:
        With(IF s.error < 0
             THEN [x |-> s.x + 1, y |-> s.y,
                   error |-> s.error + 4 * s.x + 6]
             ELSE [x |-> s.x + 1, y |-> s.y - 1,
                   error |-> s.error + 4 * (s.x - s.y) + 10],
             LAMBDA t: circle_loop(r8.mem, buf, xm, ym, t))))))))))

\* Calculator.circle (Bresenham): it returns 1 for a radius of 0
circle(m, buf, coords, radius) ==
    IF radius = 0 THEN Result(m, 1, "none")
    ELSE With([x |-> 0, y |-> radius, error |-> 3 - 2 * radius], LAMBDA s:
            circle_loop(m, buf, coords[1], coords[2], s))

\* Calculator.pxl_get
pxl_get(m, buffer, coords) ==
    _get_bit(m, buffer + py_div(coords[2] * 96 + coords[1], 8),
             py_mod(coords[1], 8))

\* the bounds of the slice self._memory[lo : hi], as Python clips them
slice_index(k) ==
    IF k < 0 THEN (IF k + memory_size < 0 THEN 0 ELSE k + memory_size)
    ELSE IF k > memory_size THEN memory_size ELSE k

\* self._memory[dst : dst + n] = self._memory[src : src + n], for slices
\* that lie inside the memory
slice_assign(m, dst, src, n) ==
    [a \in (DOMAIN m \ (dst..(dst + n - 1)))
             \cup {b - src + dst : b \in DOMAIN m \cap (src..(src + n - 1))}
        |-> IF a \in dst..(dst + n - 1) THEN m[a - dst + src] ELSE m[a]]
    @@ init_memory

RECURSIVE shift_rows(_, _, _, _, _)

\* Calculator.shift_buffer_vertical, the loops: for i in xrange(i, stop),
\* run in order, the first half of the range before the second.  A row is
\* taken to be 96 slots.
shift_rows(m, buf, direction, i, stop) ==
    IF i >= stop THEN m
    ELSE IF stop = i + 1
    THEN (IF direction = 1
          THEN slice_assign(m, buf + ((63 - i) + 1) * 96,
                            buf + (63 - i) * 96, 96)
          ELSE slice_assign(m, buf + (i - 1) * 96, buf + i * 96, 96))
    ELSE With(shift_rows(m, buf, direction, i, i + (stop - i) \div 2),
              LAMBDA m1: shift_rows(m1, buf, direction,
                                    i + (stop - i) \div 2, stop))

\* Calculator.shift_buffer_vertical(buf, direction), for a buf whose slices
\* buf .. buf + 65 * 96 lie inside the memory; any other direction than 1
\* and -1 does nothing
shift_buffer_vertical(m, buf, direction) ==
    IF direction = 1 THEN Result(shift_rows(m, buf, 1, 0, 63), 0, "none")
    ELSE IF direction = -1
    THEN Result(shift_rows(m, buf, -1, 1, 64), 0, "none")
    ELSE Result(m, 0, "none")

\* the indices i of a buffer at which the slice from loc holds a byte that
\* is not zero
nonzero(m, loc) ==
    {a - slice_index(loc) :
        a \in DOMAIN m \cap (slice_index(loc)
                                ..(slice_index(loc) + _buffer_size - 1))}

\* Calculator.disp_screen_mono: the image pygame.display.update() shows,
\* pixel 8 * i + j black when bit j of buffer1[i] is set (a byte of
\* '11111111' is blitted as one black strip, '00000000' as a white one,
\* so that only the bytes that are not zero have black pixels).
\* buffer1[i] raises IndexError when the slice is shorter than a buffer,
\* and the screen is not updated then.
disp_screen_mono(m, buffer1_loc) ==
    IF slice_index(buffer1_loc + _buffer_size) - slice_index(buffer1_loc)
         < _buffer_size
    THEN [image |-> {}, err |-> "IndexError"]
    ELSE [image |->
            UNION {{<<py_mod(i * 8 + j, actual_size),
                      py_div(i * 8 + j, actual_size)>> :
                        j \in {b \in 0..7 :
                                 _get_bit2(mem_read(m, slice_index(buffer1_loc)
                                                         + i), b)}} :
                   i \in nonzero(m, buffer1_loc)},
          err |-> "none"]

\* Calculator.three and Calculator.four: the colour of a pixel by
\* 2 * (its bit in buffer1) + (its bit in buffer2)
three == <<"WHITE", "GRAY", "BLACK", "BLACK">>
four == <<"WHITE", "LIGHT_GRAY", "DARK_GRAY", "BLACK">>

\* what the window shows: the pixels of each colour, every other one white
Image(black, dark_gray, gray, light_gray) ==
    [BLACK |-> black, DARK_GRAY |-> dark_gray, GRAY |-> gray,
     LIGHT_GRAY |-> light_gray]

\* the pixels that the loop of disp_screen blits in a colour that is not
\* white: pixel 8 * i + j by bit j of buffer1[i] and of buffer2[i] (the
\* strips of three_optimize and four_optimize have the colours of the
\* tables, and where both bytes are zero the strip is white)
blitted(m, buffer1_loc, buffer2_loc, colors, color) ==
    UNION {{<<py_mod(i * 8 + j, actual_size), py_div(i * 8 + j, actual_size)>> :
              j \in {b \in 0..7 :
                 colors[2 * bool(_get_bit2(mem_read(m, slice_index(buffer1_loc)
                                                        + i), b))
                        + bool(_get_bit2(mem_read(m, slice_index(buffer2_loc)
                                                        + i), b)) + 1]
                   = color}} :
           i \in nonzero(m, buffer1_loc) \cup nonzero(m, buffer2_loc)}

\* Calculator.disp_screen(buffer1_loc, buffer2_loc, scale), scale one of
\* 2, 3 and 4: the image pygame.display.update() shows.  buffer1[i] or
\* buffer2[i] raises IndexError when its slice is shorter than a buffer,
\* and the screen is not updated then.
disp_screen(m, buffer1_loc, buffer2_loc, scale) ==
    IF scale = 2
    THEN [image |-> Image(disp_screen_mono(m, buffer1_loc).image, {}, {}, {}),
          err |-> disp_screen_mono(m, buffer1_loc).err]
    ELSE IF \/ slice_index(buffer1_loc + _buffer_size)
                 - slice_index(buffer1_loc) < _buffer_size
            \/ slice_index(buffer2_loc + _buffer_size)
                 - slice_index(buffer2_loc) < _buffer_size
    THEN [image |-> Image({}, {}, {}, {}), err |-> "IndexError"]
    ELSE With(IF scale = 3 THEN three ELSE four, LAMBDA colors:
            [image |->
                Image(blitted(m, buffer1_loc, buffer2_loc, colors, "BLACK"),
                       blitted(m, buffer1_loc, buffer2_loc, colors, "DARK_GRAY"),
                       blitted(m, buffer1_loc, buffer2_loc, colors, "GRAY"),
                       blitted(m, buffer1_loc, buffer2_loc, colors,
                               "LIGHT_GRAY")),
             err |-> "none"])

\* a faulty get_label: an unknown name is line 0 instead of an error
get_label_default(L, name) ==
    IF name \notin DOMAIN L THEN [ret |-> 0, err |-> "none"]
    ELSE [ret |-> L[name], err |-> "none"]

\* Code.get_label
get_label(L, name) ==
    IF name \notin DOMAIN L THEN [ret |-> 0, err |-> "MissingLabelException"]
    ELSE [ret |-> L[name], err |-> "none"]

RECURSIVE Eval(_, _, _)
RECURSIVE l_operation(_, _, _, _, _)

\* Interpreter._operation.l_operation: the terms are applied left to right
\* to the seed; acc is the Result so far, i the next argument.
l_operation(L, acc, op, args, i) ==
    IF acc.err # "none" \/ i > Len(args) THEN acc
    ELSE Then(Eval(L, acc.mem, args[i]), LAMBDA t:
            IF op \in {"div", "mod"} /\ t.ret = 0
            THEN Result(t.mem, 0, "ZeroDivisionError")
            ELSE With(Result(t.mem, operation(op, acc.ret, t.ret), "none"),
                      LAMBDA s_seed: l_operation(L, s_seed, op, args, i + 1)))

\* Interpreter._pointer.l_pointer
l_pointer(L, m, e) ==
    Then(Eval(L, m, e.address), LAMBDA a:
        IF e.size = 1 THEN get_var_1(a.mem, a.ret)
        ELSE get_var_2(a.mem, a.ret))

\* Interpreter._assignment.l_set_var.  Width 1 evaluates the address, then
\* the value.  Width 2 evaluates the value (s_value, unused), then the
\* address, then the value again, and stores that second value.
l_set_var(L, m, e) ==
    IF e.pointer.size = 1
    THEN Then(Eval(L, m, e.pointer.address), LAMBDA a:
         Then(Eval(L, a.mem, e.value), LAMBDA v:
            set_var_1(v.mem, a.ret, v.ret)))
    ELSE Then(Eval(L, m, e.value), LAMBDA s_value:
         Then(Eval(L, s_value.mem, e.pointer.address), LAMBDA a:
         Then(Eval(L, a.mem, e.value), LAMBDA v:
            set_var_2(v.mem, a.ret, v.ret))))

\* Interpreter._pxl_test.l_pxl_test
l_pxl_test(L, m, e) ==
    Then(Eval(L, m, e.buf.address), LAMBDA s_buffer:
    Then(Eval(L, s_buffer.mem, e.start_x), LAMBDA s_x:
    Then(Eval(L, s_x.mem, e.start_y), LAMBDA s_y:
        pxl_get(s_y.mem, s_buffer.ret, <<s_x.ret, s_y.ret>>))))

Eval(L, m, e) ==
    CASE e.name = "expression" ->
            IF e.type = "int" THEN Result(m, e.value, "none")
            ELSE Eval(L, m, e.value)
      [] e.name = "operation" ->
            With(Eval(L, m, e.args[1]), LAMBDA s_seed:
                l_operation(L, s_seed, e.op, e.args, 2))
      [] e.name = "pointer" -> l_pointer(L, m, e)
      [] e.name = "assignment" -> l_set_var(L, m, e)
      [] e.name = "get_label" ->
            With(get_label(L, e.children[1]), LAMBDA r:
                Result(m, r.ret, r.err))
      [] e.name = "dereference" -> Eval(L, m, e.children[1].address)
      [] e.name = "pxl_test" -> l_pxl_test(L, m, e)

(***************************************************************************)
(* The Code object and the flattener (axe/interpreter.py).  cs holds the   *)
(* fields of a Code while it is flattened into; a closure is a record      *)
(* whose "fn" names it, with the values it captured.                       *)
(***************************************************************************)
\* Python values a step can return: None or a number
None == [fn |-> "NoneType", type |-> "NoneType", value |-> 0]

PyInt(v) == [fn |-> "int", type |-> "int", value |-> v]

\* the operators of the operator module that return a bool
comparisons == {"lt", "le", "eq", "ne", "gt", "ge"}

RECURSIVE py_type(_)

\* The Python type of what the thunk of e returns: a comparison returns a
\* bool; arithmetic, memory reads and set_var_2 (value % 65536) return an
\* int; set_var_1 returns its argument as it is.
py_type(e) ==
    CASE e.name = "expression" ->
            IF e.type = "int" THEN "int" ELSE py_type(e.value)
      [] e.name = "operation" ->
            IF Len(e.args) >= 2 /\ e.op \in comparisons THEN "bool"
            ELSE IF Len(e.args) >= 2 THEN "int"
            ELSE py_type(e.args[1])
      [] e.name = "assignment" ->
            IF e.pointer.size = 1 THEN py_type(e.value) ELSE "int"
      [] e.name = "dereference" -> py_type(e.children[1].address)
      [] OTHER -> "int"

\* the value v returned by the thunk of e
PyValue(e, v) == [fn |-> py_type(e), type |-> py_type(e), value |-> v]

\* Code.__init__
Code == [code |-> <<>>, labels |-> [n \in {} |-> 0], counter |-> -1]

\* Code.append: returns the new counter, cs.counter of the result
append(cs, value) ==
    [cs EXCEPT !.code = Append(@, value), !.counter = @ + 1]

\* Code.replace
replace(cs, value, line) == [cs EXCEPT !.code[value + 1] = line]

\* Code.add_label
add_label(cs, name, line) ==
    [cs EXCEPT !.labels = [n \in DOMAIN @ \cup {name} |->
                              IF n = name THEN line ELSE @[n]]]

PLACEHOLDER == [fn |-> "PLACEHOLDER"]

\* what flatten returns: the Code it leaves and the closure it returns
Flat(cs, fn) == [cs |-> cs, fn |-> fn]

RECURSIVE flatten(_, _)
RECURSIVE flatten_children(_, _, _)

\* Interpreter._program, Interpreter._block: flatten each subtree in turn
flatten_children(cs, children, i) ==
    IF i > Len(children) THEN cs
    ELSE With(flatten(cs, children[i]).cs, LAMBDA c1:
            flatten_children(c1, children, i + 1))

\* Interpreter._line: the closure of the line's statement is appended
_line(cs, ast) ==
    With(flatten(cs, ast.children[1]), LAMBDA l_output:
        Flat(append(l_output.cs, l_output.fn), l_output.fn))

\* Interpreter._while
_while(cs, ast) ==
    With(append(cs, PLACEHOLDER), LAMBDA c1:
    With(append(flatten(c1, ast.children.body).cs,
                [fn |-> "l_jump_while", s_start |-> c1.counter]), LAMBDA c3:
        Flat(replace(c3, c1.counter,
                     [fn |-> "l_check_while",
                      l_condition |-> ast.children.condition,
                      s_end |-> c3.counter]),
             [fn |-> "lambda_0"])))

\* Interpreter._repeat
_repeat(cs, ast) ==
    With(append(cs, PLACEHOLDER), LAMBDA c1:
    With(append(flatten(c1, ast.children.body).cs,
                [fn |-> "l_jump_repeat", s_start |-> c1.counter]), LAMBDA c3:
        Flat(replace(c3, c1.counter,
                     [fn |-> "l_check_repeat",
                      l_condition |-> ast.children.condition,
                      s_end |-> c3.counter]),
             [fn |-> "lambda_0"])))

\* Interpreter._if: s_end is code.counter once the body is flattened, the
\* index of the body's last step
_if(cs, ast) ==
    With(append(cs, PLACEHOLDER), LAMBDA c1:
    With(flatten(c1, ast.children.body).cs, LAMBDA c2:
        Flat(replace(c2, c1.counter,
                     [fn |-> "l_check_if",
                      l_condition |-> ast.children.condition,
                      s_end |-> c2.counter]),
             [fn |-> "lambda_0"])))

\* Interpreter._if_else: s_jump is the step between the two bodies, s_exit
\* the index of the second body's last step
_if_else(cs, ast) ==
    With(append(cs, PLACEHOLDER), LAMBDA c1:
    With(append(flatten(c1, ast.children.body.children[1]).cs, PLACEHOLDER),
         LAMBDA c3:
    With(flatten(c3, ast.children.body.children[2]).cs, LAMBDA c4:
        Flat(replace(replace(c4, c1.counter,
                             [fn |-> "l_check_ifelse",
                              l_condition |-> ast.children.condition,
                              s_jump |-> c3.counter]),
                     c3.counter,
                     [fn |-> "l_jump_ifelse", s_exit |-> c4.counter]),
             [fn |-> "lambda_0"]))))

\* Interpreter._for
_for(cs, ast) ==
    With(append(append(cs, [fn |-> "l_init_for",
                            pointer |-> ast.children.pointer,
                            l_start |-> ast.children.start]),
                PLACEHOLDER), LAMBDA c2:
    With(append(append(flatten(c2, ast.children.body).cs,
                       [fn |-> "l_update_for",
                        pointer |-> ast.children.pointer,
                        l_increment |-> ast.children.increment,
                        s_check |-> c2.counter]),
                [fn |-> "l_jump_for", s_check |-> c2.counter]), LAMBDA c5:
        Flat(replace(c5, c2.counter,
                     [fn |-> "l_condition_for",
                      pointer |-> ast.children.pointer,
                      l_end |-> ast.children.end, s_exit |-> c5.counter]),
             [fn |-> "lambda_0"])))

\* a faulty _label: the label is the index of the step before its own
_label_previous_step(cs, ast) ==
    Flat(add_label(cs, ast.children.target, cs.counter),
         [fn |-> "l_label"])

\* Interpreter._label: the label is the index of the step appended next,
\* which is the label's own step
_label(cs, ast) ==
    Flat(add_label(cs, ast.children.target, cs.counter + 1),
         [fn |-> "l_label"])

\* Interpreter._goto
_goto(cs, ast) ==
    IF ast.children.target_type = "str"
    THEN Flat(cs, [fn |-> "l_goto1", l_target |-> ast.children.target])
    ELSE Flat(cs, [fn |-> "l_goto2", l_target |-> ast.children.target])

\* Interpreter._disp
_disp(cs, ast) == Flat(cs, [fn |-> "l_disp", l_value |-> ast.children[1]])

\* Interpreter.pxl_commands, with the name of the Calculator method
pxl_commands(cs, ast, drawing_func) ==
    Flat(cs, [fn |-> "l_pxl", l_buffer |-> ast.buf.address,
              l_x |-> ast.start_x, l_y |-> ast.start_y,
              drawing_func |-> drawing_func])

_pxl_on(cs, ast) == pxl_commands(cs, ast, "rect")

_pxl_off(cs, ast) == pxl_commands(cs, ast, "clear_rect")

_pxl_change(cs, ast) == pxl_commands(cs, ast, "inverse_rect")

\* Interpreter.rect_commands, with the name of the Calculator method
rect_commands(cs, ast, drawing_func) ==
    Flat(cs, [fn |-> "l_rect", l_buffer |-> ast.buf.address,
              l_x |-> ast.start_x, l_y |-> ast.start_y,
              l_width |-> ast.kwargs.width, l_height |-> ast.kwargs.height,
              drawing_func |-> drawing_func])

_rect(cs, ast) == rect_commands(cs, ast, "rect")

_recti(cs, ast) == rect_commands(cs, ast, "inverse_rect")

\* Interpreter._circle
_circle(cs, ast) ==
    Flat(cs, [fn |-> "l_circle", l_buffer |-> ast.buf.address,
              l_x |-> ast.start_x, l_y |-> ast.start_y,
              l_radius |-> ast.kwargs.radius])

\* Interpreter._draw_line
_draw_line(cs, ast) ==
    Flat(cs, [fn |-> "l_draw_line", l_buffer |-> ast.buf.address,
              l_start_x |-> ast.start_x, l_start_y |-> ast.start_y,
              l_end_x |-> ast.kwargs.end_x, l_end_y |-> ast.kwargs.end_y])

\* Interpreter._dispgraph: above state 2 the step captures the back buffer
_dispgraph(cs, ast) ==
    IF ast.kwargs.state.value > 2
    THEN Flat(cs, [fn |-> "l_dispgraph", l_buffer |-> ast.buf.address,
                   l_backbuffer |-> ast.kwargs.backbuffer.address,
                   s_state |-> ast.kwargs.state.value])
    ELSE Flat(cs, [fn |-> "l_dispgraph", l_buffer |-> ast.buf.address,
                   s_state |-> ast.kwargs.state.value])

\* Interpreter._clrdraw
_clrdraw(cs, ast) == Flat(cs, [fn |-> "l_clrdraw", l_buffer |-> ast.buf.address])

\* Interpreter.flatten: dispatch on the node's name.  The closures of
\* expression nodes (l_expression, l_operation, l_set_var, l_pointer, ...)
\* are the record "thunk" holding the node, run by Eval.
flatten(cs, ast) ==
    CASE ast.name = "None" -> Flat(cs, None)
      [] ast.name \in {"program", "block"} ->
            Flat(flatten_children(cs, ast.children, 1), None)
      [] ast.name = "line" -> _line(cs, ast)
      [] ast.name = "while" -> _while(cs, ast)
      [] ast.name = "repeat" -> _repeat(cs, ast)
      [] ast.name = "for" -> _for(cs, ast)
      [] ast.name = "if" -> _if(cs, ast)
      [] ast.name = "if_else" -> _if_else(cs, ast)
      [] ast.name = "label" -> _label(cs, ast)
      [] ast.name = "goto" -> _goto(cs, ast)
      [] ast.name = "disp" -> _disp(cs, ast)
      [] ast.name = "pxl_on" -> _pxl_on(cs, ast)
      [] ast.name = "pxl_off" -> _pxl_off(cs, ast)
      [] ast.name = "pxl_change" -> _pxl_change(cs, ast)
      [] ast.name = "dispgraph" -> _dispgraph(cs, ast)
      [] ast.name = "clrdraw" -> _clrdraw(cs, ast)
      [] ast.name = "rect" -> _rect(cs, ast)
      [] ast.name = "recti" -> _recti(cs, ast)
      [] ast.name = "circle" -> _circle(cs, ast)
      [] ast.name = "draw_line" -> _draw_line(cs, ast)
      [] ast.name \in {"expression", "operation", "assignment", "pointer",
                       "get_label", "dereference", "pxl_test"} ->
            Flat(cs, [fn |-> "thunk", ast |-> ast])

(***************************************************************************)
(* Running a step.  invoke(step, c, L, nt, m) is the call step(code) with  *)
(* code.code = c, code.labels = L, code.next_token = nt (already           *)
(* incremented by Code.next) and memory m.                                 *)
(***************************************************************************)
Outcome(m, r, e, nt, c, p) ==
    [mem |-> m, ret |-> r, err |-> e, next_token |-> nt, code |-> c,
     printed |-> p, updates |-> <<>>]

\* a step whose thunk raised: nothing after the raise happens
Raised(r, nt, c) == Outcome(r.mem, None, r.err, nt, c, <<>>)

\* what follows in a step once the thunk's Result r is there: the step K
\* goes on with, or the step raising what the thunk raised
Go(r, nt, c, K(_)) ==
    With(r, LAMBDA x : IF x.err # "none" THEN Raised(x, nt, c) ELSE K(x))

\* calc_set_var of Interpreter._for
calc_set_var(size, m, location, value) ==
    IF size = 1 THEN set_var_1(m, location, value)
    ELSE set_var_2(m, location, value)

\* Code.internal_replace: the step being run is at next_token - 1
internal_replace(c, nt, line) == [c EXCEPT ![(nt - 1) + 1] = line]

\* a faulty l_check_while: leaves the loop when the condition is nonzero
l_check_while_until_truthy(step, c, L, nt, m) ==
    Go(Eval(L, m, step.l_condition), nt, c, LAMBDA r:
        Outcome(r.mem, PyInt(0), "none",
                IF r.ret # 0 THEN step.s_end + 1 ELSE nt, c, <<>>))

l_check_while(step, c, L, nt, m) ==
    Go(Eval(L, m, step.l_condition), nt, c, LAMBDA r:
        Outcome(r.mem, PyInt(0), "none",
                IF r.ret = 0 THEN step.s_end + 1 ELSE nt, c, <<>>))

\* a faulty l_check_repeat: leaves the loop when the condition is zero
l_check_repeat_while_truthy(step, c, L, nt, m) ==
    Go(Eval(L, m, step.l_condition), nt, c, LAMBDA r:
        Outcome(r.mem, PyInt(1), "none",
                IF r.ret = 0 THEN step.s_end + 1 ELSE nt, c, <<>>))

l_check_repeat(step, c, L, nt, m) ==
    Go(Eval(L, m, step.l_condition), nt, c, LAMBDA r:
        Outcome(r.mem, PyInt(1), "none",
                IF r.ret # 0 THEN step.s_end + 1 ELSE nt, c, <<>>))

l_check_if(step, c, L, nt, m) ==
    Go(Eval(L, m, step.l_condition), nt, c, LAMBDA r:
        Outcome(r.mem, PyInt(0), "none",
                IF r.ret = 0 THEN step.s_end + 1 ELSE nt, c, <<>>))

\* a faulty l_check_ifelse: a zero condition jumps to s_jump, not past it
l_check_ifelse_to_jump(step, c, L, nt, m) ==
    Go(Eval(L, m, step.l_condition), nt, c, LAMBDA r:
        Outcome(r.mem, PyInt(0), "none",
                IF r.ret = 0 THEN step.s_jump ELSE nt, c, <<>>))

l_check_ifelse(step, c, L, nt, m) ==
    Go(Eval(L, m, step.l_condition), nt, c, LAMBDA r:
        Outcome(r.mem, PyInt(0), "none",
                IF r.ret = 0 THEN step.s_jump + 1 ELSE nt, c, <<>>))

\* l_jump_ifelse has no return statement
l_jump_ifelse(step, c, L, nt, m) ==
    Outcome(m, None, "none", step.s_exit + 1, c, <<>>)

l_init_for(step, c, L, nt, m) ==
    Go(Eval(L, m, step.l_start), nt, c, LAMBDA s_value:
    Go(Eval(L, s_value.mem, step.pointer.address), nt, c, LAMBDA a:
    Go(calc_set_var(step.pointer.size, a.mem, a.ret, s_value.ret), nt, c,
       LAMBDA w: Outcome(w.mem, PyInt(w.ret), "none", nt, c, <<>>))))

\* a faulty l_condition_for: the end is exclusive
l_condition_for_exclusive(step, c, L, nt, m) ==
    Go(l_pointer(L, m, step.pointer), nt, c, LAMBDA s_loop:
    Go(Eval(L, s_loop.mem, step.l_end), nt, c, LAMBDA s_end:
        Outcome(s_end.mem, None, "none",
                IF s_loop.ret >= s_end.ret THEN step.s_exit + 1 ELSE nt,
                c, <<>>)))

l_condition_for(step, c, L, nt, m) ==
    Go(l_pointer(L, m, step.pointer), nt, c, LAMBDA s_loop:
    Go(Eval(L, s_loop.mem, step.l_end), nt, c, LAMBDA s_end:
        Outcome(s_end.mem, None, "none",
                IF s_loop.ret > s_end.ret THEN step.s_exit + 1 ELSE nt,
                c, <<>>)))

\* l_update_mem_for, the step l_update_for replaces itself with
l_update_mem_for(step, c, L, nt, m) ==
    Go(l_pointer(L, m, step.pointer), nt, c, LAMBDA p:
    Go(calc_set_var(step.pointer.size, p.mem, step.s_address,
                    p.ret + step.s_increment), nt, c,
       LAMBDA w: Outcome(w.mem, PyInt(w.ret), "none", nt, c, <<>>)))

l_update_for(step, c, L, nt, m) ==
    Go(Eval(L, m, step.l_increment), nt, c, LAMBDA s_increment:
    Go(Eval(L, s_increment.mem, step.pointer.address), nt, c,
       LAMBDA s_address:
    With(internal_replace(c, nt,
             [fn |-> "l_update_mem_for", pointer |-> step.pointer,
              s_increment |-> s_increment.ret,
              s_address |-> s_address.ret]), LAMBDA c1:
    Go(l_pointer(L, s_address.mem, step.pointer), nt, c1, LAMBDA p:
    Go(calc_set_var(step.pointer.size, p.mem, s_address.ret,
                    p.ret + s_increment.ret), step.s_check, c1,
       LAMBDA w: Outcome(w.mem, PyInt(w.ret), "none", step.s_check, c1,
                         <<>>))))))

\* a faulty l_goto1: resolves the label and does not jump
l_goto1_no_jump(step, c, L, nt, m) ==
    With(get_label(L, step.l_target), LAMBDA t:
        IF t.err # "none" THEN Outcome(m, None, t.err, nt, c, <<>>)
        ELSE Outcome(m, PyInt(nt), "none", nt, c, <<>>))

l_goto1(step, c, L, nt, m) ==
    With(get_label(L, step.l_target), LAMBDA t:
        IF t.err # "none" THEN Outcome(m, None, t.err, nt, c, <<>>)
        ELSE Outcome(m, PyInt(t.ret), "none", t.ret, c, <<>>))

\* Interpreter._goto.l_goto2: l_target is ast.children['target'], the
\* Expression node as the parser built it and not a flattened closure, so
\* the call l_target(other) raises TypeError (the object is not callable)
\* before anything is jumped to.
l_goto2(step, c, L, nt, m) == Outcome(m, None, "TypeError", nt, c, <<>>)

l_disp(step, c, L, nt, m) ==
    Go(Eval(L, m, step.l_value), nt, c, LAMBDA s_out:
        Outcome(s_out.mem, PyValue(step.l_value, s_out.ret), "none", nt, c,
                <<[line |-> "Disp:",
                   value |-> PyValue(step.l_value, s_out.ret)]>>))

\* drawing_func(s_buffer, s_coords, s_size)
drawing_func(name, m, buf, coords, wh) ==
    CASE name = "rect" -> rect(m, buf, coords, wh)
      [] name = "clear_rect" -> clear_rect(m, buf, coords, wh)
      [] name = "inverse_rect" -> inverse_rect(m, buf, coords, wh)

\* a faulty l_pxl: it shows the buffer it has drawn to
l_pxl_shows(step, c, L, nt, m) ==
    Go(Eval(L, m, step.l_buffer), nt, c, LAMBDA s_buffer:
    Go(Eval(L, s_buffer.mem, step.l_x), nt, c, LAMBDA s_x:
    Go(Eval(L, s_x.mem, step.l_y), nt, c, LAMBDA s_y:
    Go(drawing_func(step.drawing_func, s_y.mem, s_buffer.ret,
                    <<s_x.ret, s_y.ret>>, <<1, 1>>), nt, c, LAMBDA d:
        [Outcome(d.mem, PyInt(1), "none", nt, c, <<>>)
            EXCEPT !.updates =
                <<Image(disp_screen_mono(d.mem, s_buffer.ret).image,
                         {}, {}, {})>>]))))

\* Interpreter.pxl_commands.l_pxl
l_pxl(step, c, L, nt, m) ==
    Go(Eval(L, m, step.l_buffer), nt, c, LAMBDA s_buffer:
    Go(Eval(L, s_buffer.mem, step.l_x), nt, c, LAMBDA s_x:
    Go(Eval(L, s_x.mem, step.l_y), nt, c, LAMBDA s_y:
    Go(drawing_func(step.drawing_func, s_y.mem, s_buffer.ret,
                    <<s_x.ret, s_y.ret>>, <<1, 1>>), nt, c, LAMBDA d:
        Outcome(d.mem, PyInt(1), "none", nt, c, <<>>)))))

\* Interpreter.rect_commands.l_rect
l_rect(step, c, L, nt, m) ==
    Go(Eval(L, m, step.l_buffer), nt, c, LAMBDA s_buffer:
    Go(Eval(L, s_buffer.mem, step.l_x), nt, c, LAMBDA s_x:
    Go(Eval(L, s_x.mem, step.l_y), nt, c, LAMBDA s_y:
    Go(Eval(L, s_y.mem, step.l_width), nt, c, LAMBDA s_w:
    Go(Eval(L, s_w.mem, step.l_height), nt, c, LAMBDA s_h:
    Go(drawing_func(step.drawing_func, s_h.mem, s_buffer.ret,
                    <<s_x.ret, s_y.ret>>, <<s_w.ret, s_h.ret>>), nt, c,
       LAMBDA d: Outcome(d.mem, PyInt(1), "none", nt, c, <<>>)))))))

\* Interpreter._circle.l_circle
l_circle(step, c, L, nt, m) ==
    Go(Eval(L, m, step.l_buffer), nt, c, LAMBDA s_buffer:
    Go(Eval(L, s_buffer.mem, step.l_x), nt, c, LAMBDA s_x:
    Go(Eval(L, s_x.mem, step.l_y), nt, c, LAMBDA s_y:
    Go(Eval(L, s_y.mem, step.l_radius), nt, c, LAMBDA s_radius:
    Go(circle(s_radius.mem, s_buffer.ret, <<s_x.ret, s_y.ret>>,
              s_radius.ret), nt, c,
       LAMBDA d: Outcome(d.mem, PyInt(1), "none", nt, c, <<>>))))))

\* Interpreter._draw_line.l_draw_line
l_draw_line(step, c, L, nt, m) ==
    Go(Eval(L, m, step.l_buffer), nt, c, LAMBDA s_buffer:
    Go(Eval(L, s_buffer.mem, step.l_start_x), nt, c, LAMBDA s_x:
    Go(Eval(L, s_x.mem, step.l_start_y), nt, c, LAMBDA s_y:
    Go(Eval(L, s_y.mem, step.l_end_x), nt, c, LAMBDA e_x:
    Go(Eval(L, e_x.mem, step.l_end_y), nt, c, LAMBDA e_y:
    Go(Calculator_line(e_y.mem, s_buffer.ret, <<s_x.ret, s_y.ret>>,
                       <<e_x.ret, e_y.ret>>), nt, c,
       LAMBDA d: Outcome(d.mem, PyInt(1), "none", nt, c, <<>>)))))))

\* Interpreter._dispgraph.l_dispgraph: the one that captured a back
\* buffer calls disp_screen, the other disp_screen_mono; both return None
l_dispgraph(step, c, L, nt, m) ==
    IF "l_backbuffer" \in DOMAIN step
    THEN Go(Eval(L, m, step.l_buffer), nt, c, LAMBDA s_buffer:
         Go(Eval(L, s_buffer.mem, step.l_backbuffer), nt, c,
            LAMBDA s_backbuffer:
         With(disp_screen(s_backbuffer.mem, s_buffer.ret, s_backbuffer.ret,
                          step.s_state), LAMBDA d:
            IF d.err # "none"
            THEN Outcome(s_backbuffer.mem, None, d.err, nt, c, <<>>)
            ELSE [Outcome(s_backbuffer.mem, None, "none", nt, c, <<>>)
                    EXCEPT !.updates = <<d.image>>])))
    ELSE Go(Eval(L, m, step.l_buffer), nt, c, LAMBDA s_buffer:
         With(disp_screen_mono(s_buffer.mem, s_buffer.ret), LAMBDA d:
            IF d.err # "none"
            THEN Outcome(s_buffer.mem, None, d.err, nt, c, <<>>)
            ELSE [Outcome(s_buffer.mem, None, "none", nt, c, <<>>)
                    EXCEPT !.updates = <<Image(d.image, {}, {}, {})>>]))

\* Interpreter._clrdraw.l_clrdraw
l_clrdraw(step, c, L, nt, m) ==
    Go(Eval(L, m, step.l_buffer), nt, c, LAMBDA s_buffer:
    Go(clear_rect(s_buffer.mem, s_buffer.ret, <<0, 0>>, <<96, 64>>), nt, c,
       LAMBDA d: Outcome(d.mem, PyInt(1), "none", nt, c, <<>>)))

invoke(step, c, L, nt, m) ==
    CASE step.fn = "thunk" ->
            Go(Eval(L, m, step.ast), nt, c, LAMBDA r:
                Outcome(r.mem, PyValue(step.ast, r.ret), "none", nt, c, <<>>))
      [] step.fn = "l_disp" -> l_disp(step, c, L, nt, m)
      [] step.fn = "l_pxl" -> l_pxl(step, c, L, nt, m)
      [] step.fn = "l_dispgraph" -> l_dispgraph(step, c, L, nt, m)
      [] step.fn = "l_clrdraw" -> l_clrdraw(step, c, L, nt, m)
      [] step.fn = "l_rect" -> l_rect(step, c, L, nt, m)
      [] step.fn = "l_circle" -> l_circle(step, c, L, nt, m)
      [] step.fn = "l_draw_line" -> l_draw_line(step, c, L, nt, m)
      [] step.fn = "l_check_while" -> l_check_while(step, c, L, nt, m)
      [] step.fn = "l_check_repeat" -> l_check_repeat(step, c, L, nt, m)
      [] step.fn \in {"l_jump_while", "l_jump_repeat"} ->
            Outcome(m, None, "none", step.s_start, c, <<>>)
      [] step.fn = "l_check_if" -> l_check_if(step, c, L, nt, m)
      [] step.fn = "l_check_ifelse" -> l_check_ifelse(step, c, L, nt, m)
      [] step.fn = "l_jump_ifelse" -> l_jump_ifelse(step, c, L, nt, m)
      [] step.fn = "l_init_for" -> l_init_for(step, c, L, nt, m)
      [] step.fn = "l_condition_for" -> l_condition_for(step, c, L, nt, m)
      [] step.fn = "l_update_for" -> l_update_for(step, c, L, nt, m)
      [] step.fn = "l_update_mem_for" -> l_update_mem_for(step, c, L, nt, m)
      [] step.fn = "l_jump_for" ->
            Outcome(m, None, "none", step.s_check, c, <<>>)
      [] step.fn = "l_label" -> Outcome(m, PyInt(Len(c)), "none", nt, c, <<>>)
      [] step.fn = "l_goto1" -> l_goto1(step, c, L, nt, m)
      [] step.fn = "l_goto2" -> l_goto2(step, c, L, nt, m)
      [] step.fn = "lambda_0" -> Outcome(m, PyInt(0), "none", nt, c, <<>>)
      [] step.fn \in {"NoneType", "PLACEHOLDER"} ->
            Outcome(m, None, "TypeError", nt, c, <<>>)

(***************************************************************************)
(* Program texts and the AST the parser's productions build for them.      *)
(* A text is a record: "src" is the source, with ":" between lines; the    *)
(* For family takes its pointer and bounds from the other fields.          *)
(***************************************************************************)
Text(src) == [src |-> src, ptr |-> "", s |-> 0, e |-> 0]

\* a For program: src is its text, in which P, s and e stand for the
\* pointer and the numbers of the other fields
ForProgram(src, ptr, s, e) == [src |-> src, ptr |-> ptr, s |-> s, e |-> e]

ForText(ptr, s, e) == ForProgram("For(P,s,e):Disp P:End", ptr, s, e)

\* Disp a op1 b op2 c, with numbers a, b, c
ExprText(a, op1, b, op2, c) ==
    [src |-> "Disp a op1 b op2 c", a |-> a, op1 |-> op1, b |-> b,
     op2 |-> op2, c |-> c]

VarA == p_pointer_map_var("A")

VarI == p_pointer_map_var("I")

VarB == p_pointer_map_var("B")

VarC == p_pointer_map_var("C")

\* {3000}: p_pointer_start_single
Byte3000 == Pointer(Expression(3000), 1, "START")

\* {B}^^r: p_pointer_start_double
WordAtB == Pointer(VarB, 2, "START")

ForPointer(ptr) ==
    CASE ptr = "A" -> VarA
      [] ptr = "{3000}" -> Byte3000
      [] ptr = "{B}^^r" -> WordAtB

Store(n, pointer) == Line(p_expression_assignment_start(Expression(n), pointer))

\* cmd(x,y):DispGraph, with cmd one of Pxl-On, Pxl-Off, Pxl-Change and
\* numbers x, y
PxlText(cmd, x, y) == [src |-> "cmd(x,y):DispGraph", cmd |-> cmd, x |-> x,
                       y |-> y]

\* the values of the tokens PXL_ON, PXL_OFF, PXL_CHANGE, lower-cased
token_name(cmd) ==
    CASE cmd = "Pxl-On" -> "pxl_on"
      [] cmd = "Pxl-Off" -> "pxl_off"
      [] cmd = "Pxl-Change" -> "pxl_change"

\* v1->{a1}^^r:v2->{a2}, the second pointer of width size2 ({a2}^^r when 2)
StoreText(v1, a1, v2, a2, size2) ==
    [src |-> "v1->{a1}^^r:v2->{a2}", v1 |-> v1, a1 |-> a1, v2 |-> v2,
     a2 |-> a2, size2 |-> size2]

\* l1:l2:l3, three lines out of ShowLines
ShowText(l1, l2, l3) == [src |-> "l1:l2:l3", l1 |-> l1, l2 |-> l2, l3 |-> l3]

\* the If programs: conditions c and d are numbers
IfText(src, c, d) == [src |-> src, c |-> c, d |-> d]

\* A-1->A
DecrementA ==
    Line(p_expression_assignment_start(
            p_operation(VarA, "sub", Expression(1)), VarA))

\* the Repeat programs and their While twins: c and n are numbers
LoopText(src, c, n) == [src |-> src, c |-> c, n |-> n]

\* A+1->A
IncrementA ==
    Line(p_expression_assignment_start(
            p_operation(VarA, "add", Expression(1)), VarA))

\* the For programs whose pointer is {B}^^r: e is a number
CacheText(src, e) == [src |-> src, e |-> e]

\* the programs with ++, -- and ^^2: n is a number
SideText(src, n) == [src |-> src, n |-> n]

\* {3002}: p_pointer_start_single
Byte3002 == Pointer(Expression(3002), 1, "START")

\* the line the parser's productions build for a source line
parse_line(l) ==
    CASE l = "Pxl-On(10,5)" ->
            p_line_pxl("pxl_on", Expression(10), Expression(5))
      [] l = "Pxl-Off(10,5)" ->
            p_line_pxl("pxl_off", Expression(10), Expression(5))
      [] l = "Pxl-Change(10,5)" ->
            p_line_pxl("pxl_change", Expression(10), Expression(5))
      [] l = "Rect(8,4,4,2)" ->
            p_line_rect("rect", Expression(8), Expression(4), Expression(4),
                        Expression(2))
      [] l = "RectI(9,5,3,3)" ->
            p_line_rect("recti", Expression(9), Expression(5), Expression(3),
                        Expression(3))
      [] l = "Line(0,0,12,6)" ->
            p_line_line(Expression(0), Expression(0), Expression(12),
                        Expression(6))
      [] l = "Circle(10,5,2)" ->
            p_line_circle(Expression(10), Expression(5), Expression(2))
      [] l = "ClrDraw" -> p_line_clrdraw_buffer
      [] l = "DispGraph" -> p_line_dispgraph_monoscale
      [] l = "DispGraph^^r" -> p_line_dispgraph_3scale
      [] l = "DispGraph^^r^^r" -> p_line_dispgraph_4scale
      [] l = "6->{39087}" ->
            Store(6, Pointer(Expression(39087), 1, "START"))
      [] l = "5->A" -> Store(5, VarA)
      [] l = "Disp pxl-Test(10,5)" ->
            p_line_disp(p_tempexpression_pxl_test(Expression(10),
                                                  Expression(5)))

parse(t) ==
    CASE t.src = "For(P,s,e):Disp P:End" ->
            Program(Block(<<
                p_node_full_for(ForPointer(t.ptr), Expression(t.s),
                                Expression(t.e),
                                Block(<<p_line_disp(ForPointer(t.ptr))>>))>>))
      [] t.src = "s->B:e->C:For(P,B,C):Disp P:End" ->
            Program(Block(<<
                Store(t.s, VarB),
                Store(t.e, VarC),
                p_node_full_for(ForPointer(t.ptr), VarB, VarC,
                                Block(<<p_line_disp(ForPointer(t.ptr))>>))>>))
      [] t.src = "For(P,s,e):Disp P:e->P:End" ->
            Program(Block(<<
                p_node_full_for(ForPointer(t.ptr), Expression(t.s),
                                Expression(t.e),
                                Block(<<p_line_disp(ForPointer(t.ptr)),
                                        Store(t.e, ForPointer(t.ptr))>>))>>))
      [] t.src = "3000->B:For({B}^^r,s,e):Disp {B}^^r:6002-B->B:End" ->
            Program(Block(<<
                Store(3000, VarB),
                p_node_full_for(WordAtB, Expression(t.s), Expression(t.e),
                    Block(<<p_line_disp(WordAtB),
                            Line(p_expression_assignment_start(
                                p_operation(Expression(6002), "sub", VarB),
                                VarB))>>))>>))
      [] t.src = "e->C:For(P,s,C):Disp P:e+2->C:End" ->
            Program(Block(<<
                Store(t.e, VarC),
                p_node_full_for(ForPointer(t.ptr), Expression(t.s), VarC,
                    Block(<<p_line_disp(ForPointer(t.ptr)),
                            Line(p_expression_assignment_start(
                                p_operation(Expression(t.e), "add",
                                            Expression(2)),
                                VarC))>>))>>))
      [] t.src = "For(P,s,e):Disp P:Goto END:End:Lbl END" ->
            Program(Block(<<
                p_node_full_for(ForPointer(t.ptr), Expression(t.s),
                                Expression(t.e),
                                Block(<<p_line_disp(ForPointer(t.ptr)),
                                        p_control_goto("END")>>)),
                p_control_label("END")>>))
      [] t.src = "For(P,s,e):Disp P:Disp 1/0:End" ->
            Program(Block(<<
                p_node_full_for(ForPointer(t.ptr), Expression(t.s),
                                Expression(t.e),
                                Block(<<p_line_disp(ForPointer(t.ptr)),
                                        p_line_disp(p_operation(
                                            Expression(1), "div",
                                            Expression(0)))>>))>>))
      [] t.src = "Disp a op1 b op2 c" ->
            \* expression : NUMBER, then twice expression operator factor
            \* with factor : NUMBER
            Program(Block(<<p_line_disp(
                p_operation(p_operation(Expression(t.a), t.op1,
                                        Expression(t.b)),
                            t.op2, Expression(t.c)))>>))
      [] t.src = "0->A:For(I,1,10):A+I->A:End:Disp A" ->
            Program(Block(<<
                Store(0, VarA),
                p_node_full_for(VarI, Expression(1), Expression(10),
                    Block(<<Line(p_expression_assignment_start(
                                p_operation(VarA, "add", VarI), VarA))>>)),
                p_line_disp(VarA)>>))
      [] t.src = "Repeat 1:Disp 7:End:Disp 9" ->
            Program(Block(<<
                p_control_repeat(Expression(1),
                                 Block(<<p_line_disp(Expression(7))>>)),
                p_line_disp(Expression(9))>>))
      [] t.src = "While 0:Disp 7:End:Disp 9" ->
            Program(Block(<<
                p_control_while(Expression(0),
                                Block(<<p_line_disp(Expression(7))>>)),
                p_line_disp(Expression(9))>>))
      [] t.src = "While 1:1->A:End:Disp 9" ->
            Program(Block(<<
                p_control_while(Expression(1), Block(<<Store(1, VarA)>>)),
                p_line_disp(Expression(9))>>))
      [] t.src = "Lbl LOOP:Goto LOOP" ->
            Program(Block(<<p_control_label("LOOP"),
                            p_control_goto("LOOP")>>))
      [] t.src = "Lbl HI:1->A:Goto END:Lbl END" ->
            Program(Block(<<p_control_label("HI"), Store(1, VarA),
                            p_control_goto("END"), p_control_label("END")>>))
      [] t.src = "Goto END:Disp 7:Lbl END:Disp 9" ->
            Program(Block(<<p_control_goto("END"),
                            p_line_disp(Expression(7)),
                            p_control_label("END"),
                            p_line_disp(Expression(9))>>))
      [] t.src = "Goto(L^^END):Disp 7:Lbl END:Disp 9" ->
            Program(Block(<<p_control_goto_expression(
                                p_expression_label_get_address("END")),
                            p_line_disp(Expression(7)),
                            p_control_label("END"),
                            p_line_disp(Expression(9))>>))
      [] t.src = "For(3):Disp 7:End" ->
            \* the exception of a production's action leaves parser.parse
            p_node_const_for(Expression(3),
                             Block(<<p_line_disp(Expression(7))>>))
      [] t.src = "Disp 3:Goto NOPE:Disp 4" ->
            Program(Block(<<p_line_disp(Expression(3)),
                            p_control_goto("NOPE"),
                            p_line_disp(Expression(4))>>))
      [] t.src = "1->{65535}" ->
            Program(Block(<<Store(1, Pointer(Expression(65535), 1,
                                             "START"))>>))
      [] t.src = "5->A" -> Program(Block(<<Store(5, VarA)>>))
      [] t.src = "Disp A" -> Program(Block(<<p_line_disp(VarA)>>))
      [] t.src = "cmd(x,y):DispGraph" ->
            Program(Block(<<p_line_pxl(token_name(t.cmd), Expression(t.x),
                                       Expression(t.y)),
                            p_line_dispgraph_monoscale>>))
      [] t.src = "v1->{a1}^^r:v2->{a2}" ->
            \* p_pointer_start_double, then p_pointer_start_single or _double
            Program(Block(<<Store(t.v1, Pointer(Expression(t.a1), 2, "START")),
                            Store(t.v2, Pointer(Expression(t.a2), t.size2,
                                                "START"))>>))
      [] t.src = "l1:l2:l3" ->
            Program(Block(<<parse_line(t.l1), parse_line(t.l2),
                            parse_line(t.l3)>>))
      [] t.src = "If c:Disp 1:End:Disp 9" ->
            Program(Block(<<
                p_control_if_single(Expression(t.c),
                                    Block(<<p_line_disp(Expression(1))>>)),
                p_line_disp(Expression(9))>>))
      [] t.src = "If c:Disp 1:Else:Disp 2:End:Disp 9" ->
            Program(Block(<<
                p_control_if_double(Expression(t.c),
                                    Block(<<p_line_disp(Expression(1))>>),
                                    Block(<<p_line_disp(Expression(2))>>)),
                p_line_disp(Expression(9))>>))
      [] t.src = "If c:If d:Disp 1:Else:Disp 2:End:Disp 3:Else:If d:Disp 4:End:Disp 5:End:Disp 9" ->
            Program(Block(<<
                p_control_if_double(Expression(t.c),
                    Block(<<p_control_if_double(Expression(t.d),
                                Block(<<p_line_disp(Expression(1))>>),
                                Block(<<p_line_disp(Expression(2))>>)),
                            p_line_disp(Expression(3))>>),
                    Block(<<p_control_if_single(Expression(t.d),
                                Block(<<p_line_disp(Expression(4))>>)),
                            p_line_disp(Expression(5))>>)),
                p_line_disp(Expression(9))>>))
      [] t.src = "d->A:If c:While A:Disp A:A-1->A:End:Else:Disp 2:End:Disp 9" ->
            Program(Block(<<
                Store(t.d, VarA),
                p_control_if_double(Expression(t.c),
                    Block(<<p_control_while(VarA,
                                Block(<<p_line_disp(VarA), DecrementA>>))>>),
                    Block(<<p_line_disp(Expression(2))>>)),
                p_line_disp(Expression(9))>>))
      [] t.src = "d->A:While A:If A-1:Disp 1:Else:Disp 2:End:A-1->A:End:Disp 9" ->
            Program(Block(<<
                Store(t.d, VarA),
                p_control_while(VarA,
                    Block(<<p_control_if_double(
                                p_operation(VarA, "sub", Expression(1)),
                                Block(<<p_line_disp(Expression(1))>>),
                                Block(<<p_line_disp(Expression(2))>>)),
                            DecrementA>>)),
                p_line_disp(Expression(9))>>))
      [] t.src = "Repeat c:1->A:End:Disp 9" ->
            Program(Block(<<
                p_control_repeat(Expression(t.c), Block(<<Store(1, VarA)>>)),
                p_line_disp(Expression(9))>>))
      [] t.src = "While c:1->A:End:Disp 9" ->
            Program(Block(<<
                p_control_while(Expression(t.c), Block(<<Store(1, VarA)>>)),
                p_line_disp(Expression(9))>>))
      [] t.src = "0->A:Repeat A=n:Disp A:A+1->A:End:Disp 9" ->
            Program(Block(<<
                Store(0, VarA),
                p_control_repeat(p_operation(VarA, "eq", Expression(t.n)),
                                 Block(<<p_line_disp(VarA), IncrementA>>)),
                p_line_disp(Expression(9))>>))
      [] t.src = "0->A:While A=n:Disp A:A+1->A:End:Disp 9" ->
            Program(Block(<<
                Store(0, VarA),
                p_control_while(p_operation(VarA, "eq", Expression(t.n)),
                                Block(<<p_line_disp(VarA), IncrementA>>)),
                p_line_disp(Expression(9))>>))
      [] t.src = "3000->B:For({B}^^r,0,e):6002-B->B:End" ->
            Program(Block(<<
                Store(3000, VarB),
                p_node_full_for(WordAtB, Expression(0), Expression(t.e),
                    Block(<<Line(p_expression_assignment_start(
                                p_operation(Expression(6002), "sub", VarB),
                                VarB))>>))>>))
      [] t.src = "For(A,0,1):3000+A+A->B:For({B}^^r,0,e):1->C:End:End" ->
            Program(Block(<<
                p_node_full_for(VarA, Expression(0), Expression(1),
                    Block(<<Line(p_expression_assignment_start(
                                p_operation(p_operation(Expression(3000),
                                                        "add", VarA),
                                            "add", VarA), VarB)),
                            p_node_full_for(WordAtB, Expression(0),
                                Expression(t.e),
                                Block(<<Store(1, VarC)>>))>>))>>))
      [] t.src = "For(A,0,1):For(I,0,e):Disp I:End:End" ->
            Program(Block(<<
                p_node_full_for(VarA, Expression(0), Expression(1),
                    Block(<<p_node_full_for(VarI, Expression(0),
                                Expression(t.e),
                                Block(<<p_line_disp(VarI)>>))>>))>>))
      [] t.src = "n->A:Disp A++^^2:Disp A" ->
            Program(Block(<<
                Store(t.n, VarA),
                p_line_disp(p_operation_double(p_expression_increment(VarA))),
                p_line_disp(VarA)>>))
      [] t.src = "n->A:Disp A^^2" ->
            Program(Block(<<Store(t.n, VarA),
                            p_line_disp(p_operation_double(VarA))>>))
      [] t.src = "n->A:A++->B:Disp A:Disp B" ->
            Program(Block(<<
                Store(t.n, VarA),
                Line(p_expression_assignment_start(
                        p_expression_increment(VarA), VarB)),
                p_line_disp(VarA), p_line_disp(VarB)>>))
      [] t.src = "n->{3000}:{3000}++->{3002}:Disp {3000}:Disp {3002}" ->
            Program(Block(<<
                Store(t.n, Byte3000),
                Line(p_expression_assignment_start(
                        p_expression_increment(Byte3000), Byte3002)),
                p_line_disp(Byte3000), p_line_disp(Byte3002)>>))
      [] t.src = "n->A:A++:Disp A" ->
            Program(Block(<<Store(t.n, VarA),
                            Line(p_expression_increment(VarA)),
                            p_line_disp(VarA)>>))
      [] t.src = "n->A:A--:Disp A" ->
            Program(Block(<<Store(t.n, VarA),
                            Line(p_expression_decrement(VarA)),
                            p_line_disp(VarA)>>))
      [] t.src = "Disp 1/0" ->
            Program(Block(<<p_line_disp(
                p_operation(Expression(1), "div", Expression(0)))>>))

EmptyText == Text("")

Repeat1 == Text("Repeat 1:Disp 7:End:Disp 9")

While0 == Text("While 0:Disp 7:End:Disp 9")

While1 == Text("While 1:1->A:End:Disp 9")

LblGoto == Text("Lbl LOOP:Goto LOOP")

S4 == Text("Lbl HI:1->A:Goto END:Lbl END")

GotoSkip == Text("Goto END:Disp 7:Lbl END:Disp 9")

GotoComputed == Text("Goto(L^^END):Disp 7:Lbl END:Disp 9")

ForShort == Text("For(3):Disp 7:End")

GotoNope == Text("Disp 3:Goto NOPE:Disp 4")

StoreA == Text("5->A")

DispA == Text("Disp A")

DispDivZero == Text("Disp 1/0")

StoreOutside == Text("1->{65535}")

S2 == Text("0->A:For(I,1,10):A+I->A:End:Disp A")

\* Scenario S1
S1 == PxlText("Pxl-On", 10, 5)

\* the programs entered at the REPL
Texts == {Repeat1, While0, While1, LblGoto, S4, GotoSkip, GotoNope, StoreA,
          DispA, DispDivZero, StoreOutside, GotoComputed, ForShort}

\* the largest value a pointer of the given width holds
max_value(size) == IF size = 1 THEN 255 ELSE 65535

\* the For programs: ends near 0 and near the largest value of the
\* pointer, starts at most ForSpan below the end
ForEnds(ptr) ==
    (0..ForSpan) \cup {max_value(ForPointer(ptr).size) - 1,
                       max_value(ForPointer(ptr).size)}

ForStarts(e) == {s \in (e - ForSpan)..e : s >= 0}

\* the For programs whose body prints P and leaves alone P and what the
\* loop reads: the bounds are numbers, or are read from B and C
CountingSources ==
    {"For(P,s,e):Disp P:End", "s->B:e->C:For(P,B,C):Disp P:End"}

\* the For programs whose body stores to P, changes the end, jumps out of
\* the loop, or raises
DisturbingSources ==
    {"For(P,s,e):Disp P:e->P:End", "e->C:For(P,s,C):Disp P:e+2->C:End",
     "For(P,s,e):Disp P:Goto END:End:Lbl END",
     "For(P,s,e):Disp P:Disp 1/0:End"}

\* the body changes B, which the address of P = {B}^^r is read from
MovingSource == "3000->B:For({B}^^r,s,e):Disp {B}^^r:6002-B->B:End"

ForTexts ==
    UNION {UNION {{ForProgram(src, ptr, s, e) :
                     s \in ForStarts(e),
                     src \in IF e <= ForSpan
                             THEN CountingSources \cup DisturbingSources
                             ELSE CountingSources} :
                  e \in ForEnds(ptr)} : ptr \in {"A", "{3000}"}}
    \cup {ForProgram(MovingSource, "{B}^^r", 0, e) : e \in 0..1}

(***************************************************************************)
(* The REPL of axe.interpreter.test and Interpreter.execute / run.         *)
(***************************************************************************)
Exc(name) == [fn |-> name, type |-> name, value |-> 0]

\* a faulty Code.next: next_token is not incremented
next_no_increment(c, nt) ==
    IF nt >= Len(c) \/ nt < -Len(c) THEN [out |-> None, next_token |-> nt]
    ELSE [out |-> c[(IF nt < 0 THEN nt + Len(c) ELSE nt) + 1],
          next_token |-> nt]

\* Code.next: the step at next_token and the incremented next_token, or
\* None (and next_token as it was) when the index raises IndexError
next(c, nt) ==
    IF nt >= Len(c) \/ nt < -Len(c) THEN [out |-> None, next_token |-> nt]
    ELSE [out |-> c[(IF nt < 0 THEN nt + Len(c) ELSE nt) + 1],
          next_token |-> nt + 1]

\* code.next()(code) of Interpreter.run in the current state
tick ==
    With(next(code, next_token), LAMBDA n:
        invoke(n.out, code, labels, n.next_token, memory))

\* test(): the try is entered; _thread_text = ''
EnterTry ==
    /\ pc = "console"
    /\ thread_text' = EmptyText
    /\ pc' = "start"
    /\ UNCHANGED <<screen, calc_vars, code_vars, text, thread, stdout, runs,
                   call_vars>>

\* test(): t = _console_thread(); t.start(); on to the polling loop
StartConsole ==
    /\ pc = "start"
    /\ thread' = "started"
    /\ pc' = "wait"
    /\ UNCHANGED <<screen, calc_vars, code_vars, text, thread_text, stdout,
                   runs, call_vars>>

\* test(): parser.parse(text), then Interpreter.execute up to the loop of
\* Interpreter.run: a new Code, the flattened program, out = None
Execute ==
    /\ pc = "top"
    /\ text # EmptyText
    /\ runs < MaxRuns
    /\ \E ast \in {parse(text)} :
         /\ ast.name # "raise"
         /\ \E cs \in {flatten(Code, ast).cs} :
               /\ code' = cs.code
               /\ labels' = cs.labels
    /\ next_token' = 0
    /\ out' = None
    /\ pc' = "run"
    /\ runs' = runs + 1
    /\ UNCHANGED <<screen, calc_vars, text, thread_text, thread, stdout, call_vars>>

\* test(): parser.parse(text) raises; nothing in test() catches it and the
\* process ends with a traceback
ParseRaises ==
    /\ pc = "top"
    /\ text # EmptyText
    /\ \E ast \in {parse(text)} :
         /\ ast.name = "raise"
         /\ stdout' = Append(stdout, [line |-> "Traceback",
                                      value |-> Exc(ast.err)])
    /\ pc' = "crashed"
    /\ UNCHANGED <<screen, calc_vars, code_vars, text, thread_text, thread,
                   runs, call_vars>>

\* test() with an empty text: nothing is executed, on to the try
SkipExecute ==
    /\ pc = "top"
    /\ text = EmptyText
    /\ pc' = "console"
    /\ UNCHANGED <<screen, calc_vars, code_vars, text, thread_text, thread,
                   stdout, runs, call_vars>>

\* one iteration of the loop of Interpreter.run whose step returns
Step ==
    /\ pc \in {"run", "Axe.run"}
    /\ \E o \in {tick} :
          /\ o.err = "none"
          /\ Len(stdout) + Len(o.printed) <= MaxStdout
          /\ memory' = o.mem
          /\ code' = o.code
          /\ next_token' = o.next_token
          /\ out' = o.ret
          /\ stdout' = stdout \o o.printed
          /\ screen' = IF o.updates = <<>> THEN screen
                       ELSE o.updates[Len(o.updates)]
    /\ UNCHANGED <<time, events, labels, pc, text, thread_text, thread, runs,
                   call_vars>>

\* the iteration that raises TypeError (Code.next returned None, or the step
\* raised it): run prints out and returns, execute returns, and test() is
\* before its try.  Code.next has incremented next_token before a step that
\* raises is called, and what the step did to the Code before it raised stays.
RunEnd ==
    /\ pc = "run"
    /\ \E o \in {tick} :
          /\ o.err = "TypeError"
          /\ memory' = o.mem
          /\ code' = o.code
          /\ next_token' = o.next_token
    /\ stdout' = Append(stdout, [line |-> "... ", value |-> out])
    /\ pc' = "console"
    /\ UNCHANGED <<screen, time, events, labels, out, text, thread_text, thread,
                   runs, call_vars>>

\* a step raises an AxeRuntimeError: test() prints it and is before its try
StepAxeRuntimeError ==
    /\ pc = "run"
    /\ \E o \in {tick} :
          /\ o.err = "MissingLabelException"
          /\ memory' = o.mem
          /\ code' = o.code
          /\ next_token' = o.next_token
          /\ stdout' = Append(stdout, [line |-> "Runtime error: ",
                                       value |-> Exc(o.err)])
    /\ pc' = "console"
    /\ UNCHANGED <<screen, time, events, labels, out, text, thread_text, thread,
                   runs, call_vars>>

\* a step raises any other exception: nothing in run, execute or test
\* catches it and the process ends with a traceback
StepRaises ==
    /\ pc = "run"
    /\ \E o \in {tick} :
          /\ o.err \notin {"none", "TypeError", "MissingLabelException"}
          /\ memory' = o.mem
          /\ code' = o.code
          /\ next_token' = o.next_token
          /\ stdout' = Append(stdout, [line |-> "Traceback",
                                       value |-> Exc(o.err)])
    /\ pc' = "crashed"
    /\ UNCHANGED <<screen, time, events, labels, out, text, thread_text, thread,
                   runs, call_vars>>

\* _console_thread.run: raw_input prints the prompt ...
ConsolePrompt ==
    /\ thread = "started"
    /\ pc # "crashed"
    /\ thread' = "reading"
    /\ stdout' = Append(stdout, [line |-> "axe> ", value |-> None])
    /\ UNCHANGED <<screen, calc_vars, code_vars, pc, text, thread_text, runs,
                   call_vars>>

\* ... and returns the line typed, which is stripped into _thread_text ...
ConsoleRead(line) ==
    /\ thread = "reading"
    /\ thread' = "assigned"
    /\ thread_text' = line
    /\ UNCHANGED <<screen, calc_vars, code_vars, pc, text, stdout, runs, call_vars>>

\* ... and run returns: the thread ends
ConsoleEnd ==
    /\ thread = "assigned"
    /\ thread' = "done"
    /\ UNCHANGED <<screen, calc_vars, code_vars, pc, text, thread_text, stdout,
                   runs, call_vars>>

\* Calculator.sanity_check with d ms on the clock since the last call:
\* past 200 ms the event queue is drained, and a QUIT event exits
sanity_check(d) ==
    IF time + d > 200
    THEN [time |-> IF events > 0 THEN time + d ELSE 0, events |-> 0,
          exit |-> events > 0]
    ELSE [time |-> time + d, events |-> events, exit |-> FALSE]

Ticks == {0, TickMs}

\* the polling loop of test(): sanity_check finds a QUIT event and exits
PollExit(d) ==
    /\ pc = "wait"
    /\ sanity_check(d).exit
    /\ time' = sanity_check(d).time
    /\ events' = sanity_check(d).events
    /\ pc' = "exited"
    /\ UNCHANGED <<screen, memory, code_vars, text, thread_text, thread, stdout, runs,
                   call_vars>>

\* the polling loop of test(): no text yet, the loop goes round
PollSpin(d) ==
    /\ pc = "wait"
    /\ ~sanity_check(d).exit
    /\ thread_text = EmptyText
    /\ time' = sanity_check(d).time
    /\ events' = sanity_check(d).events
    /\ UNCHANGED <<screen, memory, code_vars, repl_vars, call_vars>>

\* the polling loop of test(): text has arrived; break, to t.join()
PollBreak(d) ==
    /\ pc = "wait"
    /\ ~sanity_check(d).exit
    /\ thread_text # EmptyText
    /\ time' = sanity_check(d).time
    /\ events' = sanity_check(d).events
    /\ pc' = "join"
    /\ UNCHANGED <<screen, memory, code_vars, text, thread_text, thread, stdout,
                   runs, call_vars>>

\* test(): t.join() returns once the console thread has ended; then
\* text = _thread_text
Join ==
    /\ pc = "join"
    /\ thread = "done"
    /\ text' = thread_text
    /\ pc' = "top"
    /\ UNCHANGED <<screen, calc_vars, code_vars, thread_text, thread, stdout,
                   runs, call_vars>>

\* KeyboardInterrupt on the main thread.  Inside the try of test() (before
\* _thread_text = '', before t.start(), in the polling loop or in t.join())
\* an empty line is printed, the loop is left and test() returns.  Outside
\* it (at if text and parser.parse, below Interpreter.execute, whose except
\* takes AxeRuntimeError only, or after the run and before the try) nothing
\* catches it and the process ends with a traceback.  Below Axe.run it
\* reaches the caller.  At "console" test() is at its try statement, before
\* it or just inside.
KeyboardInterrupt ==
    /\ \/ /\ pc \in {"console", "start", "wait", "join"}
          /\ stdout' = Append(stdout, [line |-> "", value |-> None])
          /\ pc' = "returned"
       \/ /\ pc \in {"top", "run", "console"}
          /\ stdout' = Append(stdout, [line |-> "Traceback",
                                       value |-> Exc("KeyboardInterrupt")])
          /\ pc' = "crashed"
       \/ /\ pc = "Axe.run"
          /\ stdout' = stdout
          /\ pc' = "raised"
    /\ UNCHANGED <<screen, calc_vars, code_vars, text, thread_text, thread, runs,
                   call_vars>>

\* the user closes the window: pygame queues a QUIT event
QuitEvent ==
    /\ pc \in {"top", "run", "console", "start", "wait", "join", "Axe",
              "Axe.run"}
    /\ events < MaxEvents
    /\ events' = events + 1
    /\ UNCHANGED <<screen, memory, time, code_vars, repl_vars, call_vars>>

\* parser.parse of a text as it is given.  The texts of the model are
\* written without a last newline, which test() appends and parse(t)
\* assumes.  Every statement of the grammar ends with a newline token (a
\* newline or a colon), so that without it, and for the empty text, the
\* input ends where a token is due: p_error(None) prints the syntax error
\* and parse returns None.
parse_as_given(t, terminated) ==
    IF terminated
    THEN [ast |-> parse(t), printed |-> <<>>]
    ELSE [ast |-> [name |-> "None"],
          printed |-> <<[line |-> "! > Syntax error.", value |-> None]>>]

\* Axe.run(text): Calculator.init() (pygame and the clock anew, memory
\* zeroed, the window redrawn), parser.parse(text), which may raise, then
\* Interpreter.execute up to the loop of Interpreter.run.  The text is
\* parsed as given: terminated says whether it ends with a newline.  The
\* caller may have caught what an earlier call raised.
Axe_run(t, terminated) ==
    /\ pc \in {"Axe", "raised"}
    /\ runs < MaxRuns
    /\ terminated => t # EmptyText
    /\ text' = t
    /\ memory' = init_memory
    /\ time' = 0
    /\ screen' = disp_screen(init_memory, constants.L6, None, 2).image
    /\ \E p \in {parse_as_given(t, terminated)} :
         /\ stdout' = stdout \o p.printed
         /\ IF p.ast.name = "raise"
            THEN /\ pc' = "raised"
                 /\ UNCHANGED <<code_vars, runs>>
            ELSE /\ \E cs \in {flatten(Code, p.ast).cs} :
                       /\ code' = cs.code
                       /\ labels' = cs.labels
                 /\ next_token' = 0
                 /\ out' = None
                 /\ pc' = "Axe.run"
                 /\ runs' = runs + 1
    /\ UNCHANGED <<events, thread_text, thread, call_vars>>

\* the iteration of Interpreter.run that raises TypeError, below Axe.run:
\* run prints out and returns, and so do execute and Axe.run
Axe_run_returns ==
    /\ pc = "Axe.run"
    /\ \E o \in {tick} :
          /\ o.err = "TypeError"
          /\ memory' = o.mem
          /\ code' = o.code
          /\ next_token' = o.next_token
    /\ stdout' = Append(stdout, [line |-> "... ", value |-> out])
    /\ pc' = "Axe"
    /\ UNCHANGED <<screen, time, events, labels, out, text, thread_text, thread,
                   runs, call_vars>>

\* a step raises any other exception below Axe.run: nothing in run, execute
\* or Axe.run catches it and it reaches the caller
Axe_run_raises ==
    /\ pc = "Axe.run"
    /\ \E o \in {tick} :
          /\ o.err \notin {"none", "TypeError"}
          /\ memory' = o.mem
          /\ code' = o.code
          /\ next_token' = o.next_token
    /\ pc' = "raised"
    /\ UNCHANGED <<screen, time, events, labels, out, text, thread_text, thread,
                   stdout, runs, call_vars>>

\* the state after Calculator.init() and Code-less Interpreter.start()
Idle ==
    /\ memory = init_memory
    /\ screen = disp_screen(init_memory, constants.L6, None, 2).image
    /\ time = 0
    /\ events = 0
    /\ code = <<>>
    /\ labels = Code.labels
    /\ next_token = 0
    /\ out = None
    /\ thread_text = EmptyText
    /\ thread = "none"
    /\ stdout = <<>>
    /\ runs = 0
    /\ call = [method |-> "init", location |-> 0, value |-> 0, ret |-> 0,
               err |-> "none"]
    /\ ncalls = 0

\* test(text): the REPL, started with a program or with nothing; or an
\* Axe object, whose run has not been called yet
Init ==
    /\ Idle
    /\ \/ pc = "top" /\ text \in Texts \cup {EmptyText}
       \/ pc = "Axe" /\ text = EmptyText

Next ==
    \/ Execute
    \/ ParseRaises
    \/ SkipExecute
    \/ Step
    \/ RunEnd
    \/ EnterTry
    \/ StartConsole
    \/ StepAxeRuntimeError
    \/ StepRaises
    \/ ConsolePrompt
    \/ \E line \in Texts \cup {EmptyText} : ConsoleRead(line)
    \/ ConsoleEnd
    \/ \E d \in Ticks : PollExit(d)
    \/ \E d \in Ticks : PollSpin(d)
    \/ \E d \in Ticks : PollBreak(d)
    \/ Join
    \/ KeyboardInterrupt
    \/ QuitEvent
    \/ \E t \in Texts \cup {EmptyText}, terminated \in BOOLEAN :
          Axe_run(t, terminated)
    \/ Axe_run_returns
    \/ Axe_run_raises

Spec == Init /\ [][Next]_vars

\* The loop of Interpreter.run is a plain while True on the main thread:
\* its next iteration always happens, whichever way it ends, and so do the
\* statements of test() that start the console thread.  The console
\* thread, once started, gets to print its prompt and, once it has
\* assigned the line, to end.
FairSpec ==
    /\ Spec
    /\ WF_vars(Step)
    /\ WF_vars(RunEnd)
    /\ WF_vars(StepAxeRuntimeError)
    /\ WF_vars(StepRaises)
    /\ WF_vars(EnterTry)
    /\ WF_vars(StartConsole)
    /\ WF_vars(Axe_run_returns)
    /\ WF_vars(Axe_run_raises)
    /\ WF_vars(ConsolePrompt)
    /\ WF_vars(ConsoleEnd)

(***************************************************************************)
(* One run of a For program: test(text) with the text of a For loop.       *)
(***************************************************************************)
InitFor ==
    /\ Idle
    /\ pc = "top"
    /\ text \in ForTexts \cup {S2}

NextFor ==
    \/ Execute
    \/ Step
    \/ StepRaises
    \/ RunEnd
    \/ EnterTry
    \/ StartConsole

SpecFor == InitFor /\ [][NextFor]_vars /\ WF_vars(NextFor)

(***************************************************************************)
(* Direct calls of the Calculator's memory methods.                        *)
(***************************************************************************)
Addrs == (0..AddrSpan) \cup ((memory_size - 2 - AddrSpan)..(memory_size - 1))

Values == UNION {(k - ValSpan)..(k + ValSpan) : k \in {0, 256, 65536}}

Called(method, location, value, r) ==
    /\ pc = "calls"
    /\ ncalls < MaxCalls
    /\ memory' = r.mem
    /\ call' = [method |-> method, location |-> location, value |-> value,
                ret |-> r.ret, err |-> r.err]
    /\ ncalls' = ncalls + 1
    /\ UNCHANGED <<screen, time, events, code_vars, repl_vars>>

CallSetVar1(a, v) == Called("set_var_1", a, v, set_var_1(memory, a, v))

CallSetVar2(a, v) == Called("set_var_2", a, v, set_var_2(memory, a, v))

CallGetVar1(a) == Called("get_var_1", a, 0, get_var_1(memory, a))

CallGetVar2(a) == Called("get_var_2", a, 0, get_var_2(memory, a))

InitMem ==
    /\ Idle
    /\ pc = "calls"
    /\ text = EmptyText

NextMem ==
    \/ \E a \in Addrs, v \in Values : CallSetVar1(a, v)
    \/ \E a \in Addrs, v \in Values : CallSetVar2(a, v)
    \/ \E a \in Addrs : CallGetVar1(a)
    \/ \E a \in Addrs : CallGetVar2(a)

SpecMem == InitMem /\ [][NextMem]_vars

(***************************************************************************)
(* Direct calls of the Calculator's drawing methods on one pixel, on a     *)
(* memory that holds some bytes already.                                   *)
(***************************************************************************)
\* buffer bases: the front and back buffers, and the last base whose 768
\* slots are all in memory
Bases == {constants.L6, constants.L3, memory_size - _buffer_size}

\* pixels of the 96 x 64 window, and coordinates outside it
Window == {<<0, 0>>, <<10, 5>>, <<95, 63>>}

Outside == {<<96, 0>>, <<0, 64>>, <<0, 65535>>}

InWindow(coords) ==
    /\ coords[1] >= 0 /\ coords[1] < 96
    /\ coords[2] >= 0 /\ coords[2] < 64

\* the slot a pixel of a buffer is kept in
PixelSlot(buf, coords) == buf + py_div(coords[1], 8) + 12 * coords[2]

\* what the bytes of the pixels' slots hold before the calls
PriorBytes == {0, 255, 85, 170}

Prior(v) ==
    [a \in {PixelSlot(b, p) : b \in Bases, p \in Window \cup Outside}
            \cap (IF v = 0 THEN {} ELSE 0..(memory_size - 1)) |-> v]

\* the pixel as the memory holds it, 0 where there is no such slot
Pixel(m, buf, coords) ==
    IF pxl_get(m, buf, coords).err = "none" THEN pxl_get(m, buf, coords).ret
    ELSE 0

Drawn(method, buf, coords, r) ==
    /\ pc = "draws"
    /\ ncalls < MaxDraws
    /\ memory' = r.mem
    /\ call' = [method |-> method, location |-> buf, value |-> coords,
                ret |-> r.ret, err |-> r.err,
                before |-> Pixel(memory, buf, coords),
                prev |-> [method |-> call.method,
                          location |-> call.location,
                          value |-> call.value, err |-> call.err,
                          before |-> call.before]]
    /\ ncalls' = ncalls + 1
    /\ UNCHANGED <<screen, time, events, code_vars, repl_vars>>

CallRect(buf, coords) ==
    Drawn("rect", buf, coords, rect(memory, buf, coords, <<1, 1>>))

CallClearRect(buf, coords) ==
    Drawn("clear_rect", buf, coords, clear_rect(memory, buf, coords, <<1, 1>>))

CallInverseRect(buf, coords) ==
    Drawn("inverse_rect", buf, coords,
          inverse_rect(memory, buf, coords, <<1, 1>>))

CallPxlGet(buf, coords) ==
    Drawn("pxl_get", buf, coords, pxl_get(memory, buf, coords))

InitDraw ==
    /\ memory \in {Prior(v) : v \in PriorBytes}
    /\ screen = disp_screen(init_memory, constants.L6, None, 2).image
    /\ time = 0
    /\ events = 0
    /\ code = <<>>
    /\ labels = Code.labels
    /\ next_token = 0
    /\ out = None
    /\ pc = "draws"
    /\ text = EmptyText
    /\ thread_text = EmptyText
    /\ thread = "none"
    /\ stdout = <<>>
    /\ runs = 0
    /\ call = [method |-> "init", location |-> 0, value |-> <<0, 0>>,
               ret |-> 0, err |-> "none", before |-> 0]
    /\ ncalls = 0

NextDraw ==
    \/ \E b \in Bases, p \in Window \cup Outside : CallRect(b, p)
    \/ \E b \in Bases, p \in Window \cup Outside : CallClearRect(b, p)
    \/ \E b \in Bases, p \in Window \cup Outside : CallInverseRect(b, p)
    \/ \E b \in Bases, p \in Window \cup Outside : CallPxlGet(b, p)

SpecDraw == InitDraw /\ [][NextDraw]_vars

(***************************************************************************)
(* What the properties look at.                                            *)
(***************************************************************************)
\* the index of the last prompt printed, 0 when there is none
LastPrompt ==
    IF \E i \in 1..Len(stdout) : stdout[i].line = "axe> "
    THEN CHOOSE i \in 1..Len(stdout) :
            /\ stdout[i].line = "axe> "
            /\ \A j \in (i + 1)..Len(stdout) : stdout[j].line # "axe> "
    ELSE 0

\* what has been printed since the last prompt: the output of the run that
\* is going on, or that has just ended while no new prompt is out yet
RunOutput == SubSeq(stdout, LastPrompt + 1, Len(stdout))

IsDisp(l) == l.line = "Disp:"

Disps == SelectSeq(RunOutput, IsDisp)

DispLine(v) == [line |-> "Disp:", value |-> PyInt(v)]

EndLine(v) == [line |-> "... ", value |-> PyInt(v)]

ErrorLine(name) == [line |-> "Runtime error: ", value |-> Exc(name)]

Printed(l) == \E i \in 1..Len(RunOutput) : RunOutput[i] = l

\* the program t is being run
Running(t) == pc = "run" /\ text = t

\* the run of t is over and test() has started the next console thread
Ended(t) == pc = "wait" /\ thread = "started" /\ text = t

\* the run of t is over (its last line is printed) and test() is at its try
Ran(t) == pc = "console" /\ text = t

\* test() has returned after a KeyboardInterrupt in its try
Returned ==
    /\ pc = "returned"
    /\ stdout # <<>>
    /\ stdout[Len(stdout)] = [line |-> "", value |-> None]

\* the process has ended with an uncaught KeyboardInterrupt
Interrupted ==
    /\ pc = "crashed"
    /\ stdout # <<>>
    /\ stdout[Len(stdout)] = [line |-> "Traceback",
                              value |-> Exc("KeyboardInterrupt")]

\* the value a pointer reads now
ValueOf(pointer) == l_pointer(labels, memory, pointer).ret

(***************************************************************************)
(* Calculator memory: C1, C2 (under SpecMem).                              *)
(***************************************************************************)
\* C1: for every address a in [0, 65534) and value v in [0, 65535],
\* set_var_2(a, v) returns, stores the low byte at a and the high byte at
\* a + 1, and get_var_2(a) then returns v.
C1_Width2RoundTrip ==
    (/\ call.method = "set_var_2"
     /\ call.location \in 0..65533
     /\ call.value \in 0..65535)
    => /\ call.err = "none"
       /\ mem_read(memory, call.location) = call.value % 256
       /\ mem_read(memory, call.location + 1) = call.value \div 256
       /\ get_var_2(memory, call.location)
            = Result(memory, call.value, "none")

C1_Witness ==
    /\ call.method = "set_var_2"
    /\ call.location = 65533
    /\ call.value = 65535
    /\ get_var_2(memory, 65533).ret = 65535

\* C2: for every address a and integer v, set_var_1(a, v) returns v mod 256,
\* and the returned value is what get_var_1(a) reads back right afterwards.
C2_Width1Wrap ==
    (call.method = "set_var_1" /\ call.err = "none")
    => /\ call.ret = call.value % 256
       /\ call.ret = get_var_1(memory, call.location).ret

(***************************************************************************)
(* For loops: C3 (under SpecFor).                                          *)
(***************************************************************************)
\* the lines d are Disp s, Disp s+1, ... and no more than e-s+1 of them
CountsUp(d, s, e) ==
    /\ Len(d) <= e - s + 1
    /\ \A i \in 1..Len(d) : d[i] = DispLine(s + i - 1)

\* the loop of t is over: the body ran e-s+1 times and P is e+1
ForLeaves(t) ==
    /\ Len(Disps) = t.e - t.s + 1
    /\ ValueOf(ForPointer(t.ptr)) = t.e + 1

\* P can hold e + 1
InRange(t) == t.e < max_value(ForPointer(t.ptr).size)

Counting(t) == t \in ForTexts /\ t.src \in CountingSources /\ InRange(t)

\* the run of a For program with the given body is over
Over(src) == text \in ForTexts /\ text.src = src /\ pc = "wait"

C4_Repeat1Once ==
    Ran(Repeat1)
    => RunOutput = <<DispLine(7), DispLine(9), EndLine(9)>>

\* C4, amended: Repeat 1 ... End does not execute its body at all (the
\* check at the loop head jumps past the loop when the condition is
\* nonzero) and continues after End: the run ends, having printed what
\* follows End only, unless it is interrupted from the keyboard, which ends
\* the process.
C4_Repeat1Skips ==
    /\ []((text = Repeat1 /\ pc \in {"run", "console"})
            => ~Printed(DispLine(7)))
    /\ [](Ran(Repeat1) => RunOutput = <<DispLine(9), EndLine(9)>>)
    /\ Running(Repeat1) ~> (Ran(Repeat1) \/ Interrupted)

C4_Witness ==
    /\ Ran(Repeat1)
    /\ RunOutput = <<DispLine(9), EndLine(9)>>
    /\ next_token = 4

\* C5: While 0 ... End never executes its body and continues after End (its
\* run ends, having printed what follows End only, unless it is interrupted
\* from the keyboard); While 1 ... End, with a body that does not jump out,
\* executes its body again and again and its run never ends (it can only
\* be interrupted from the keyboard, which ends the process).
C5_While ==
    /\ []((text = While0 /\ pc \in {"run", "console"})
            => ~Printed(DispLine(7)))
    /\ [](Ran(While0) => RunOutput = <<DispLine(9), EndLine(9)>>)
    /\ Running(While0) ~> (Ran(While0) \/ Interrupted)
    /\ [][Running(While1) => (Running(While1)' \/ Interrupted')]_vars
    /\ [](Running(While1) => ~Printed(DispLine(9)))
    /\ Running(While1) ~> ((next_token = 2 /\ out = PyInt(1)) \/ Interrupted)

C5_Witness ==
    /\ runs = 2
    /\ Running(While1)
    /\ next_token = 2
    /\ out = PyInt(1)
    /\ stdout[1] = DispLine(9)
    /\ stdout[2] = EndLine(9)

\* C6: the run of Lbl LOOP / Goto LOOP never ends: the Goto (step 1) leaves
\* the instruction pointer at or before its own index, and the Goto is
\* executed again and again (the run can only be interrupted from the
\* keyboard, which ends the process).
C6_LabelGoto ==
    /\ [][Running(LblGoto) => (Running(LblGoto)' \/ Interrupted')]_vars
    /\ [][(Running(LblGoto) /\ next_token = 1) => next_token' \in {0, 1}]_vars
    /\ Running(LblGoto) ~> (next_token = 1 \/ Interrupted)
    /\ (Running(LblGoto) /\ next_token = 1)
         ~> ((next_token = 0 /\ out = PyInt(0)) \/ Interrupted)

C6_Witness ==
    /\ Running(LblGoto)
    /\ next_token = 0
    /\ out = PyInt(0)

\* C7: a Goto whose label is defined later in the text jumps to that label
\* when it is executed: Goto END / Disp 7 / Lbl END / Disp 9 ends having
\* printed Disp: 9 only, and Lbl HI / 1->A / Goto END / Lbl END ends
\* without an error and with A == 1 (unless the run is interrupted from
\* the keyboard, which ends the process).
C7_ForwardGoto ==
    /\ [](Ran(GotoSkip) => RunOutput = <<DispLine(9), EndLine(9)>>)
    /\ Running(GotoSkip) ~> (Ran(GotoSkip) \/ Interrupted)
    /\ [](Ran(S4) => (RunOutput = <<EndLine(4)>> /\ ValueOf(VarA) = 1))
    /\ Running(S4) ~> (Ran(S4) \/ Interrupted)

C7_Witness ==
    /\ Ran(S4)
    /\ ValueOf(VarA) = 1
    /\ labels["END"] = 3
    /\ out = PyInt(4)

\* C8: Disp 3 / Goto NOPE / Disp 4 runs Disp 3, then the Goto raises
\* MissingLabelException; the REPL prints the error, the rest of the
\* program is not run, the process goes on (the exception does not end
\* it), and the prompt for the next program comes.  An interrupt from the
\* keyboard alone prevents it: during the run, or after it before the try
\* of test(), it ends the process with a traceback; in the try, it makes
\* test() return, with no prompt when the console thread of this round is
\* not started yet.
C8_MissingLabel ==
    /\ [](Ran(GotoNope)
          => RunOutput = <<DispLine(3), ErrorLine("MissingLabelException")>>)
    /\ []((text = GotoNope /\ pc \in {"run", "console"})
            => ~Printed(DispLine(4)))
    /\ [](text = GotoNope => (pc # "crashed" \/ Interrupted))
    /\ Running(GotoNope) ~> (Ran(GotoNope) \/ Interrupted)
    /\ Ran(GotoNope)
         ~> ((thread = "reading" /\ RunOutput = <<>>) \/ Interrupted
             \/ (Returned /\ thread \in {"none", "done"}))

C8_Witness ==
    /\ runs = 2
    /\ pc = "run"
    /\ Len(stdout) >= 3
    /\ stdout[1] = DispLine(3)
    /\ stdout[2] = ErrorLine("MissingLabelException")
    /\ stdout[3].line = "axe> "

(***************************************************************************)
(* The REPL session: C9, C10.                                              *)
(***************************************************************************)
\* C9: every Interpreter.execute starts from cleared memory: whatever ran
\* before in the session, Disp A prints Disp: 0.
C9_ExecuteClearsMemory ==
    Ended(DispA) => RunOutput = <<DispLine(0), EndLine(0)>>

\* C10: a quit event that is pending while a program runs eventually ends
\* the run.
C10_QuitEndsRun == (pc = "run" /\ events > 0) ~> (pc # "run")

(***************************************************************************)
(* Runtime errors at the REPL: C11.                                        *)
(***************************************************************************)
\* C11: a runtime error other than a missing label (a division by zero, a
\* store outside the memory) is reported at the REPL, which then goes on:
\* the process does not end with the exception (an interrupt from the
\* keyboard alone ends it), and the run of a program that raises ends with
\* test() starting the console thread for the next program.
C11_RuntimeErrorsReported ==
    /\ pc = "crashed" => Interrupted
    /\ (Ended(DispDivZero) \/ Ended(StoreOutside))
         => RunOutput[Len(RunOutput)].line = "Runtime error: "

(***************************************************************************)
(* Expressions: C12 (under SpecExpr).                                      *)
(***************************************************************************)
\* p_combination_operator: the operators, as Operation.op holds them
operators == {"add", "sub", "mul", "div", "mod"} \cup comparisons

ExprTexts ==
    {ExprText(a, op1, b, op2, c) :
        a \in 0..ExprSpan, op1 \in operators, b \in 0..ExprSpan,
        op2 \in operators, c \in 0..ExprSpan}

InitExpr ==
    /\ Idle
    /\ pc = "top"
    /\ text \in ExprTexts

NextExpr ==
    \/ Execute
    \/ Step
    \/ RunEnd
    \/ EnterTry
    \/ StartConsole
    \/ StepRaises

SpecExpr == InitExpr /\ [][NextExpr]_vars

\* a op1 b op2 c divides by zero when evaluated left to right
DividesByZero(t) ==
    \/ t.op1 \in {"div", "mod"} /\ t.b = 0
    \/ t.op2 \in {"div", "mod"} /\ t.c = 0

\* C12: a op1 b op2 c evaluates as (a op1 b) op2 c for every pair of
\* operators: Disp a op1 b op2 c prints that value (or the run raises, when
\* that evaluation divides by zero), and Disp 1+2*3 prints 9.
C12_FlatPrecedence ==
    /\ (pc = "wait" \/ pc = "crashed")
         => IF DividesByZero(text)
            THEN pc = "crashed" /\ Disps = <<>>
            ELSE /\ pc = "wait"
                 /\ Len(Disps) = 1
                 /\ Disps[1].value.value
                      = operation(text.op2,
                                  operation(text.op1, text.a, text.b),
                                  text.c)
    /\ (pc = "wait" /\ text = ExprText(1, "add", 2, "mul", 3))
         => Disps = <<DispLine(9)>>

C12_Witness ==
    /\ pc = "wait"
    /\ text = ExprText(1, "add", 2, "mul", 3)
    /\ Disps = <<DispLine(9)>>

(***************************************************************************)
(* C13.  A pixel of the window that rect has just drawn reads 1 and one    *)
(* that clear_rect has just drawn reads 0, for every buffer whose 768      *)
(* slots are in memory and whatever the slots held: the call returns, the  *)
(* memory it leaves reads so through pxl_get, and a pxl_get call that      *)
(* comes next on the same pixel returns that value.                        *)
(***************************************************************************)
SamePixel(c, d) == c.location = d.location /\ c.value = d.value

C13_PixelSetTest ==
    /\ (call.method = "rect" /\ InWindow(call.value))
         => /\ call.err = "none"
            /\ pxl_get(memory, call.location, call.value)
                 = Result(memory, 1, "none")
    /\ (call.method = "clear_rect" /\ InWindow(call.value))
         => /\ call.err = "none"
            /\ pxl_get(memory, call.location, call.value)
                 = Result(memory, 0, "none")
    /\ (/\ call.method = "pxl_get"
        /\ call.prev.method \in {"rect", "clear_rect"}
        /\ SamePixel(call, call.prev)
        /\ InWindow(call.value))
         => /\ call.err = "none"
            /\ call.ret = bool(call.prev.method = "rect")

\* rect has set a pixel that was clear, and pxl_get has then read it as 1
C13_Witness ==
    /\ call.method = "pxl_get"
    /\ call.prev.method = "rect"
    /\ SamePixel(call, call.prev)
    /\ call.value = <<10, 5>>
    /\ call.prev.before = 0
    /\ call.ret = 1

(***************************************************************************)
(* C14.  Two inverse_rect calls in a row on the same pixel of the same     *)
(* buffer leave the pixel as pxl_get read it before the first of them,     *)
(* and the first call alone leaves the opposite value.                     *)
(***************************************************************************)
C14_XorInvolution ==
    (/\ call.method = "inverse_rect"
     /\ call.prev.method = "inverse_rect"
     /\ SamePixel(call, call.prev)
     /\ call.err = "none")
      => /\ pxl_get(memory, call.location, call.value).ret = call.prev.before
         /\ call.before = 1 - call.prev.before

\* a set pixel of the window has been inverted twice
C14_Witness ==
    /\ call.method = "inverse_rect"
    /\ call.prev.method = "inverse_rect"
    /\ SamePixel(call, call.prev)
    /\ call.value = <<95, 63>>
    /\ call.err = "none"
    /\ call.prev.before = 1
    /\ call.before = 0
    /\ Pixel(memory, call.location, call.value) = 1

(***************************************************************************)
(* Programs that draw one pixel and show the buffer.                       *)
(***************************************************************************)
GfxTexts ==
    {PxlText(cmd, x, y) : cmd \in {"Pxl-On", "Pxl-Off", "Pxl-Change"},
                          x \in {0, 10, 95, 96}, y \in {0, 5, 63, 3000}}

InitGfx ==
    /\ Idle
    /\ pc = "top"
    /\ text \in GfxTexts

NextGfx ==
    \/ Execute
    \/ Step
    \/ RunEnd
    \/ EnterTry
    \/ StartConsole
    \/ StepRaises

SpecGfx == InitGfx /\ [][NextGfx]_vars

(***************************************************************************)
(* C15, as claimed.  Once Pxl-On(10,5) / DispGraph has run on zeroed       *)
(* memory, the byte at L6 + 13 has the bit of mask 4 set.                  *)
(***************************************************************************)
C15_S1AsClaimed ==
    (pc = "wait" /\ text = S1)
      => _get_bit2(mem_read(memory, constants.L6 + 13), 2)

(***************************************************************************)
(* C15.  Once Pxl-On(10,5) / DispGraph has run on zeroed memory, the byte  *)
(* at L6 + 12 * 5 + 10 div 8 = L6 + 61 has the bit of mask 4 set and is    *)
(* the only nonzero byte of memory, and the window shows pixel (10, 5)     *)
(* black and no other.                                                     *)
(***************************************************************************)
C15_S1 ==
    (pc = "wait" /\ text = S1)
      => /\ _get_bit2(mem_read(memory, constants.L6 + 61), 2)
         /\ memory = [a \in {constants.L6 + 61} |-> 4]
         /\ screen = Image({<<10, 5>>}, {}, {}, {})

C15_Witness ==
    /\ pc = "wait"
    /\ text = S1
    /\ mem_read(memory, constants.L6 + 61) = 4
    /\ RunOutput = <<[line |-> "... ", value |-> None]>>

(***************************************************************************)
(* Programs of two stores: a width-2 store, then a store of either width   *)
(* at, next to or over the first one.                                      *)
(***************************************************************************)
StoreTexts ==
    {StoreText(v1, a1, v2, a2, size2) :
        v1 \in {0, 1337, 65535}, a1 \in {3000, 3001, memory_size - 1},
        v2 \in {42, 256, 511}, a2 \in {3000, 3001, 3002}, size2 \in {1, 2}}

S3 == StoreText(1337, 3000, 42, 3002, 1)

InitStore ==
    /\ Idle
    /\ pc = "top"
    /\ text \in StoreTexts

NextStore ==
    \/ Execute
    \/ Step
    \/ RunEnd
    \/ EnterTry
    \/ StartConsole
    \/ StepRaises

SpecStore == InitStore /\ [][NextStore]_vars

\* the slots a store of the given width to address a may change
Footprint(a, width) == IF width = 2 THEN {a, a + 1} ELSE {a}

\* what slot b holds once t's first store has run on zeroed memory
AfterFirst(t, b) ==
    IF b = t.a1 THEN t.v1 % 256
    ELSE IF b = t.a1 + 1 THEN t.v1 \div 256
    ELSE 0

(***************************************************************************)
(* C16.  A store changes no slot outside its footprint, {a, a + 1} for     *)
(* width 2 and {a} for width 1: after the first store of a program every   *)
(* slot outside its footprint is still 0, and after the second store every *)
(* slot outside the second footprint holds what the first store left; a    *)
(* store that raises changes no slot outside the first footprint either.   *)
(* The slots of the footprint hold the value's bytes.  Hence after         *)
(* 1337->{3000}^^r : 42->{3002}, get_var_2(3000) is 1337 and get_var_1(3002)*)
(* is 42.                                                                  *)
(***************************************************************************)
C16_StoreFootprint ==
    /\ (pc = "run" /\ next_token = 0) => memory = init_memory
    /\ ((pc = "run" /\ next_token <= 1) \/ pc = "crashed")
         => DOMAIN memory \subseteq Footprint(text.a1, 2)
    /\ (pc = "run" /\ next_token = 1)
         => get_var_2(memory, text.a1).ret = text.v1
    /\ (pc \in {"run", "wait"} /\ next_token = 2)
         => /\ \A b \in (DOMAIN memory \cup Footprint(text.a1, 2))
                          \ Footprint(text.a2, text.size2) :
                  mem_read(memory, b) = AfterFirst(text, b)
            /\ text.size2 = 1
                 => get_var_1(memory, text.a2).ret = text.v2 % 256
            /\ text.size2 = 2 => get_var_2(memory, text.a2).ret = text.v2
    /\ (pc = "wait" /\ text = S3)
         => /\ get_var_2(memory, 3000) = Result(memory, 1337, "none")
            /\ get_var_1(memory, 3002) = Result(memory, 42, "none")

\* both stores of 1337->{3000}^^r : 42->{3002} have run
C16_Witness ==
    /\ pc = "wait"
    /\ text = S3
    /\ next_token = 2
    /\ memory = [b \in {3000, 3001, 3002} |->
                   IF b = 3000 THEN 57 ELSE IF b = 3001 THEN 5 ELSE 42]

(***************************************************************************)
(* C17, as claimed.  A 1x1 rect, clear_rect or inverse_rect returns for    *)
(* every buffer base and every coordinate pair, in the window or not.      *)
(* (It does not: the slot buf + x div 8 + 12 * y is an index into an       *)
(* array of 65535 slots, and an index past its end raises IndexError.)     *)
(***************************************************************************)
C17_DrawingNeverFails ==
    call.method \in {"rect", "clear_rect", "inverse_rect"}
      => call.err = "none"

(***************************************************************************)
(* Programs of three lines that store, draw, clear, test and show.         *)
(***************************************************************************)
ShowLines ==
    {"Pxl-On(10,5)", "Pxl-Off(10,5)", "Pxl-Change(10,5)", "Rect(8,4,4,2)",
     "RectI(9,5,3,3)", "Line(0,0,12,6)", "Circle(10,5,2)", "ClrDraw",
     "DispGraph", "DispGraph^^r", "DispGraph^^r^^r", "5->A", "6->{39087}",
     "Disp pxl-Test(10,5)"}

\* the lines a program ends with
LastLines == {"DispGraph", "DispGraph^^r^^r", "ClrDraw",
              "Disp pxl-Test(10,5)"}

ShowTexts == {ShowText(l1, l2, l3) : l1 \in ShowLines, l2 \in ShowLines,
                                     l3 \in LastLines}

InitShow ==
    /\ Idle
    /\ pc = "top"
    /\ text \in ShowTexts

NextShow ==
    \/ Execute
    \/ Step
    \/ RunEnd
    \/ EnterTry
    \/ StartConsole

SpecShow == InitShow /\ [][NextShow]_vars

\* the step Interpreter.run is about to call
CurrentStep == next(code, next_token).out

\* the pixels whose bit is set in the buffer at buf as memory m holds it:
\* slot buf + k holds pixels 8 * (k mod 12) .. 8 * (k mod 12) + 7 of row
\* k div 12
ShownAt(m, buf) ==
    UNION {{<<8 * ((a - buf) % 12) + j, (a - buf) \div 12>> :
              j \in {b \in 0..7 : (m[a] \div (2 ^ b)) % 2 = 1}} :
           a \in DOMAIN m \cap (buf..(buf + 767))}

\* the window of a DispGraph step: the front buffer L6 in black; with one
\* ^^r, the back buffer L3 in gray where the front buffer is clear; with
\* two, black where both are set, dark gray for the front buffer alone
\* and light gray for the back buffer alone
Shown(m, step) ==
    IF step.s_state = 2
    THEN Image(ShownAt(m, constants.L6), {}, {}, {})
    ELSE IF step.s_state = 3
    THEN Image(ShownAt(m, constants.L6), {},
                ShownAt(m, constants.L3) \ ShownAt(m, constants.L6), {})
    ELSE Image(ShownAt(m, constants.L6) \cap ShownAt(m, constants.L3),
                ShownAt(m, constants.L6) \ ShownAt(m, constants.L3), {},
                ShownAt(m, constants.L3) \ ShownAt(m, constants.L6))

(***************************************************************************)
(* C18.  The image the window shows changes only in a step that is a       *)
(* DispGraph: every other step (store, Pxl-On, Pxl-Off, Pxl-Change, Rect,  *)
(* RectI, Line, Circle, ClrDraw, Disp) leaves it as it was.  What the      *)
(* steps before have written is what the next step sees: a DispGraph step  *)
(* shows the buffer as memory holds it, and Disp pxl-Test(10,5) prints     *)
(* the pixel as memory holds it.                                           *)
(***************************************************************************)
C18_DisplayOnlyOnDispGraph ==
    [][/\ screen' # screen => (pc = "run" /\ CurrentStep.fn = "l_dispgraph")
       /\ (pc = "run" /\ pc' = "run" /\ next_token' # next_token
           /\ CurrentStep.fn = "l_dispgraph")
            => (screen' = Shown(memory, CurrentStep) /\ memory' = memory)
       /\ (pc = "run" /\ pc' = "run" /\ next_token' # next_token
           /\ CurrentStep.fn = "l_disp")
            => stdout' = Append(stdout,
                    DispLine(Pixel(memory, constants.L6, <<10, 5>>)))]_vars

\* Pxl-On(10,5) : DispGraph : ClrDraw has run: the window shows the pixel
\* that the buffer holds no more
C18_Witness ==
    /\ pc = "wait"
    /\ text = ShowText("Pxl-On(10,5)", "DispGraph", "ClrDraw")
    /\ screen = Image({<<10, 5>>}, {}, {}, {})
    /\ memory = init_memory

(***************************************************************************)
(* C19, as claimed.  Goto(L^^END) continues at label END: the run of       *)
(* Goto(L^^END) / Disp 7 / Lbl END / Disp 9 skips Disp 7 and displays 9.   *)
(* (It does not: the step calls the target's AST node, which raises        *)
(* TypeError, and Interpreter.run takes that for the end of the program.)  *)
(***************************************************************************)
C19_ComputedGoto ==
    Ended(GotoComputed) => RunOutput = <<DispLine(9), EndLine(9)>>

(***************************************************************************)
(* C20, as claimed.  For(3) / Disp 7 / End runs its body once for each     *)
(* counter value 0, 1, 2: the run displays 7 three times.                  *)
(* (It does not: the production of For(expr) raises NameError while the    *)
(* text is parsed, so nothing of the program runs.)                        *)
(***************************************************************************)
C20_ShortFor ==
    (text = ForShort /\ ((pc = "crashed" /\ ~Interrupted) \/ Ended(ForShort)))
      => Disps = <<DispLine(7), DispLine(7), DispLine(7)>>

(***************************************************************************)
(* C21.  A framebuffer is row-major with 12 slots per row, and pixel       *)
(* (x, y) is one bit of slot buf + 12 * y + x div 8; the leftmost pixel of *)
(* a slot is its bit 7: a pixel of the window that rect has just set is    *)
(* bit 7 - x mod 8 of its slot.                                            *)
(***************************************************************************)
\* bit k of the slot that holds pixel coords of buffer buf
SlotBit(m, buf, coords, k) ==
    (mem_read(m, PixelSlot(buf, coords)) \div (2 ^ k)) % 2

\* the pixels of the window in the rectangle at coords of size wh
RectPixels(coords, wh) ==
    {p \in (coords[1]..(coords[1] + wh[1] - 1))
             \X (coords[2]..(coords[2] + wh[2] - 1)) : InWindow(p)}

C21_Bit7Leftmost ==
    (call.method = "rect" /\ call.err = "none")
      => \A p \in RectPixels(call.args[2], call.args[3]) :
            SlotBit(memory, call.args[1], p, 7 - (p[1] % 8)) = 1

(***************************************************************************)
(* Programs with If and If-Else, alone, nested in one another, around a    *)
(* While and inside one.                                                   *)
(***************************************************************************)
IfSources ==
    {"If c:Disp 1:End:Disp 9",
     "If c:Disp 1:Else:Disp 2:End:Disp 9",
     "If c:If d:Disp 1:Else:Disp 2:End:Disp 3:Else:If d:Disp 4:End:Disp 5:End:Disp 9",
     "d->A:If c:While A:Disp A:A-1->A:End:Else:Disp 2:End:Disp 9",
     "d->A:While A:If A-1:Disp 1:Else:Disp 2:End:A-1->A:End:Disp 9"}

IfConditions == {0, 1, 2, 65535}

IfTexts ==
    {IfText(src, c, d) : src \in IfSources, c \in IfConditions,
                         d \in 0..IfSpan}

InitIf ==
    /\ Idle
    /\ pc = "top"
    /\ text \in IfTexts

NextIf ==
    \/ Execute
    \/ Step
    \/ RunEnd
    \/ EnterTry
    \/ StartConsole

SpecIf == InitIf /\ [][NextIf]_vars

\* the numbers an If program is to display, in order
IfValues(t) ==
    CASE t.src = "If c:Disp 1:End:Disp 9" ->
            (IF t.c # 0 THEN <<1>> ELSE <<>>) \o <<9>>
      [] t.src = "If c:Disp 1:Else:Disp 2:End:Disp 9" ->
            <<IF t.c # 0 THEN 1 ELSE 2, 9>>
      [] t.src = "If c:If d:Disp 1:Else:Disp 2:End:Disp 3:Else:If d:Disp 4:End:Disp 5:End:Disp 9" ->
            IF t.c # 0 THEN <<IF t.d # 0 THEN 1 ELSE 2, 3, 9>>
            ELSE (IF t.d # 0 THEN <<4>> ELSE <<>>) \o <<5, 9>>
      [] t.src = "d->A:If c:While A:Disp A:A-1->A:End:Else:Disp 2:End:Disp 9" ->
            IF t.c # 0 THEN [i \in 1..t.d |-> t.d - i + 1] \o <<9>>
            ELSE <<2, 9>>
      [] t.src = "d->A:While A:If A-1:Disp 1:Else:Disp 2:End:A-1->A:End:Disp 9" ->
            [i \in 1..t.d |-> IF t.d - i # 0 THEN 1 ELSE 2] \o <<9>>

\* a prefix of a sequence
IsPrefix(s, t) == Len(s) <= Len(t) /\ SubSeq(t, 1, Len(s)) = s

(***************************************************************************)
(* C22.  If c / body / End runs its body once when c is nonzero and not    *)
(* at all when it is zero, If c / A / Else / B / End runs A alone when c   *)
(* is nonzero and B alone when it is zero, and both go on at the step      *)
(* after End, also when the bodies hold an If, an If-Else or a While and   *)
(* when the If is the body of a While: what a run has displayed is at any  *)
(* time the start of, and at its end the whole of, the sequence these      *)
(* rules give, and no step raises.                                         *)
(***************************************************************************)
C22_IfLowering ==
    /\ pc \in {"run", "wait"} =>
          IsPrefix(Disps, [i \in 1..Len(IfValues(text)) |->
                              DispLine(IfValues(text)[i])])
    /\ pc = "wait" =>
          /\ Disps = [i \in 1..Len(IfValues(text)) |->
                         DispLine(IfValues(text)[i])]
          /\ RunOutput[Len(RunOutput)] = EndLine(9)
    /\ pc # "crashed"

\* the nested program has run with c = 0 and d = 2: the Else body alone,
\* and in it the inner If's body
C22_Witness ==
    /\ pc = "wait"
    /\ text = IfText("If c:If d:Disp 1:Else:Disp 2:End:Disp 3:Else:If d:Disp 4:End:Disp 5:End:Disp 9", 0, 2)
    /\ Disps = <<DispLine(4), DispLine(5), DispLine(9)>>

(***************************************************************************)
(* One run of a Repeat program or of the While program that differs from   *)
(* it in the keyword only.                                                 *)
(***************************************************************************)
RepeatSources ==
    {"Repeat c:1->A:End:Disp 9", "0->A:Repeat A=n:Disp A:A+1->A:End:Disp 9"}

WhileSources ==
    {"While c:1->A:End:Disp 9", "0->A:While A=n:Disp A:A+1->A:End:Disp 9"}

\* the While program of a Repeat program
WhileTwin(t) ==
    [t EXCEPT !.src = IF @ = "Repeat c:1->A:End:Disp 9"
                      THEN "While c:1->A:End:Disp 9"
                      ELSE "0->A:While A=n:Disp A:A+1->A:End:Disp 9"]

LoopTexts ==
    {LoopText(src, c, n) : src \in RepeatSources \cup WhileSources,
                           c \in {0, 1, 2, 65535}, n \in 0..RepeatSpan}

InitRepeat ==
    /\ Idle
    /\ pc = "top"
    /\ text \in LoopTexts

NextRepeat ==
    \/ Execute
    \/ Step
    \/ RunEnd
    \/ EnterTry
    \/ StartConsole

\* The loop of Interpreter.run is a plain while True: its next iteration
\* always happens.
SpecRepeat == InitRepeat /\ [][NextRepeat]_vars /\ WF_vars(NextRepeat)

\* the steps of a While with the check that leaves on a nonzero condition
\* and the Repeat's names
AsRepeat(c) ==
    [i \in 1..Len(c) |->
        IF c[i].fn = "l_check_while"
        THEN [fn |-> "l_check_repeat", l_condition |-> c[i].l_condition,
              s_end |-> c[i].s_end]
        ELSE IF c[i].fn = "l_jump_while"
        THEN [fn |-> "l_jump_repeat", s_start |-> c[i].s_start]
        ELSE c[i]]

RepeatForever(t) == t.src = "Repeat c:1->A:End:Disp 9" /\ t.c = 0

RepeatCounts(t) == t.src = "0->A:Repeat A=n:Disp A:A+1->A:End:Disp 9"

(***************************************************************************)
(* C23.  Repeat cond / body / End is flattened into the steps of           *)
(* While cond / body / End, with a check at the loop head that jumps past  *)
(* the loop when the condition is nonzero.  The check runs before every    *)
(* iteration, the first included: a Repeat with a nonzero number for its   *)
(* condition never runs its body, and Repeat A=n around Disp A / A+1->A    *)
(* started with A = 0 displays 0 .. n - 1 and nothing when n = 0.  The run *)
(* of Repeat 0 / 1->A / End never ends and runs the body again and again.  *)
(***************************************************************************)
C23_RepeatLowering ==
    /\ []((pc \in {"run", "wait"} /\ text.src \in RepeatSources)
            => code = AsRepeat(flatten(Code, parse(WhileTwin(text))).cs.code))
    /\ []((pc = "wait" /\ RepeatCounts(text))
            => Disps = [i \in 1..(text.n + 1) |->
                          DispLine(IF i = text.n + 1 THEN 9 ELSE i - 1)])
    /\ []((pc = "wait" /\ text.src = "Repeat c:1->A:End:Disp 9")
            => (memory = init_memory /\ Disps = <<DispLine(9)>>))
    /\ \A t \in LoopTexts :
          (Running(t) /\ RepeatCounts(t)) ~> Ended(t)
    /\ [][(pc = "run" /\ RepeatForever(text))
            => (pc' = "run" /\ text' = text)]_vars
    /\ []((pc = "run" /\ RepeatForever(text)) => ~Printed(DispLine(9)))
    /\ (pc = "run" /\ RepeatForever(text))
          ~> (next_token = 2 /\ out = PyInt(1))
    /\ (pc = "run" /\ RepeatForever(text) /\ next_token = 2)
          ~> (next_token = 0)

\* Repeat 0 / 1->A / End is back at its check, the body having run
C23_Witness ==
    /\ pc = "run"
    /\ RepeatForever(text)
    /\ next_token = 0
    /\ ValueOf(VarA) = 1

(***************************************************************************)
(* One run of a For program whose pointer is a variable or is {B}^^r with  *)
(* a body that changes B, alone or inside another For.                     *)
(***************************************************************************)
CacheSources ==
    {"3000->B:For({B}^^r,0,e):6002-B->B:End",
     "For(A,0,1):3000+A+A->B:For({B}^^r,0,e):1->C:End:End",
     "For(A,0,1):For(I,0,e):Disp I:End:End"}

CacheTexts == {CacheText(src, e) : src \in CacheSources, e \in 0..CacheSpan}

InitCache ==
    /\ Idle
    /\ pc = "top"
    /\ text \in CacheTexts

NextCache ==
    \/ Execute
    \/ Step
    \/ RunEnd
    \/ EnterTry
    \/ StartConsole

SpecCache == InitCache /\ [][NextCache]_vars

RECURSIVE Reevaluating(_, _, _, _)

\* The run of the steps c in which a step's replacement of itself is
\* dropped, so that l_update_for evaluates its address and increment every
\* time: s holds the memory, next_token and output so far and the
\* memories gone through; ended tells that the run has come to its end
\* within the steps counted.
Reevaluating(c, L, s, n) ==
    IF s.ended \/ n = 0 THEN s
    ELSE IF n = 1
    THEN With(With(next(c, s.next_token), LAMBDA f:
                  invoke(f.out, c, L, f.next_token, s.mem)), LAMBDA o:
            IF o.err # "none" THEN [s EXCEPT !.ended = TRUE]
            ELSE [mem |-> o.mem, next_token |-> o.next_token,
                  printed |-> s.printed \o o.printed,
                  mems |-> s.mems \cup {o.mem}, ended |-> FALSE])
    ELSE With(Reevaluating(c, L, s, n \div 2), LAMBDA s1:
            Reevaluating(c, L, s1, n - n \div 2))

\* that run of the program being run, from the memory test() starts with
Reference ==
    Reevaluating(flatten(Code, parse(text)).cs.code, labels,
                 [mem |-> init_memory, next_token |-> 0, printed |-> <<>>,
                  mems |-> {init_memory}, ended |-> FALSE], MaxSteps)

(***************************************************************************)
(* C24.  The run of a For program goes through memories and output that    *)
(* the run re-evaluating the address and the increment in every update     *)
(* goes through too, and ends, when it does, with that run's memory and    *)
(* output.                                                                 *)
(***************************************************************************)
C24_CachingUnobservable ==
    pc \in {"run", "wait"} =>
        With(Reference, LAMBDA r:
            /\ memory \in r.mems
            /\ IsPrefix(Disps, r.printed)
            /\ pc = "wait" => (r.ended /\ memory = r.mem
                               /\ Disps = r.printed))

\* the same for the loops whose pointer is a variable
C24_VariablePointers ==
    text.src = "For(A,0,1):For(I,0,e):Disp I:End:End"
      => C24_CachingUnobservable

\* the steps that do not call Code.jump
StraightSteps ==
    {"thunk", "lambda_0", "l_disp", "l_label", "l_init_for",
     "l_update_mem_for", "l_pxl", "l_rect", "l_circle", "l_draw_line",
     "l_dispgraph", "l_clrdraw"}

\* next_token is the index of a step
AtStep == next_token \in 0..(Len(code) - 1)

\* the call of the step at index next_token, made with next_token
\* incremented
Fetched == invoke(code[next_token + 1], code, labels, next_token + 1, memory)

(***************************************************************************)
(* C25.  An iteration of the loop of Interpreter.run takes the step at     *)
(* next_token, increments next_token and calls the step.  While next_token *)
(* is the index of a step and the step raises nothing, the run goes on: it *)
(* is that step that is called, its result is kept in out, and after a     *)
(* step that does not jump next_token is the step's index plus 1.  With    *)
(* next_token past the last step the run ends, printing out, and it does   *)
(* end then: test() is then at its try, the console thread not yet        *)
(* started.  (An interrupt from the keyboard, which ends the process, is   *)
(* no iteration of the loop.)                                              *)
(***************************************************************************)
C25_DriverLoop ==
    /\ [][(pc = "run" /\ AtStep /\ events' = events /\ ~Interrupted'
           /\ Fetched.err = "none")
            => /\ pc' = "run"
               /\ out' = Fetched.ret
               /\ memory' = Fetched.mem
               /\ next_token' = Fetched.next_token
               /\ code[next_token + 1].fn \in StraightSteps
                    => next_token' = next_token + 1]_vars
    /\ [][(pc = "run" /\ pc' # "run" /\ ~Interrupted')
            => (~AtStep \/ Fetched.err # "none")]_vars
    /\ [][(pc = "run" /\ next_token = Len(code) /\ events' = events
           /\ ~Interrupted')
            => /\ pc' = "console"
               /\ stdout' = Append(stdout, [line |-> "... ", value |-> out])
               /\ memory' = memory
               /\ thread' = thread]_vars
    /\ (pc = "run" /\ next_token = Len(code))
         ~> (pc = "console" \/ Interrupted)

\* the run of Goto END / Disp 7 / Lbl END / Disp 9 has called its last step
\* and is past the end of its four steps
C25_Witness ==
    /\ Running(GotoSkip)
    /\ Len(code) = 4
    /\ next_token = 4
    /\ out = PyInt(9)
    /\ Disps = <<DispLine(9)>>

(***************************************************************************)
(* Sequences of calls of the Calculator's methods that write memory, with  *)
(* values inside and outside a byte and a word, and coordinates inside and *)
(* left of the window.                                                     *)
(***************************************************************************)
\* call is the last call: its method, arguments and outcome, and the
\* memory it was made on
Invoked(method, args, r) ==
    /\ pc = "calc"
    /\ ncalls < MaxSeq
    /\ memory' = r.mem
    /\ call' = [method |-> method, args |-> args, ret |-> r.ret,
                err |-> r.err, was |-> memory]
    /\ ncalls' = ncalls + 1
    /\ UNCHANGED <<screen, time, events, code_vars, repl_vars>>

SeqAddrs == {0, constants.L6 + 1, memory_size - 1}

SeqValues == {-1, 255, 256, 65535, 65536 + 511}

SeqCoords == {<<0, 0>>, <<-3, 2>>, <<90, 62>>}

SeqSizes == {<<1, 1>>, <<9, 2>>}

SeqBases == {constants.L6, constants.L3}

Directions == {1, -1, 0}

InvokeSetVar1(a, v) ==
    Invoked("set_var_1", <<a, v>>, set_var_1(memory, a, v))

InvokeSetVar2(a, v) ==
    Invoked("set_var_2", <<a, v>>, set_var_2(memory, a, v))

InvokeRect(buf, coords, wh) ==
    Invoked("rect", <<buf, coords, wh>>, rect(memory, buf, coords, wh))

InvokeClearRect(buf, coords, wh) ==
    Invoked("clear_rect", <<buf, coords, wh>>,
            clear_rect(memory, buf, coords, wh))

InvokeInverseRect(buf, coords, wh) ==
    Invoked("inverse_rect", <<buf, coords, wh>>,
            inverse_rect(memory, buf, coords, wh))

InvokeLine(buf, start, end) ==
    Invoked("line", <<buf, start, end>>,
            Calculator_line(memory, buf, start, end))

InvokeCircle(buf, coords, radius) ==
    Invoked("circle", <<buf, coords, radius>>,
            circle(memory, buf, coords, radius))

InvokeShiftVertical(buf, direction) ==
    Invoked("shift_buffer_vertical", <<buf, direction>>,
            shift_buffer_vertical(memory, buf, direction))

InitSeq ==
    /\ Idle
    /\ pc = "calc"
    /\ text = EmptyText

NextSeq ==
    \/ \E a \in SeqAddrs, v \in SeqValues : InvokeSetVar1(a, v)
    \/ \E a \in SeqAddrs, v \in SeqValues : InvokeSetVar2(a, v)
    \/ \E c \in SeqCoords, wh \in SeqSizes : InvokeRect(constants.L6, c, wh)
    \/ \E c \in SeqCoords, wh \in SeqSizes :
          InvokeClearRect(constants.L6, c, wh)
    \/ \E c \in SeqCoords, wh \in SeqSizes :
          InvokeInverseRect(constants.L6, c, wh)
    \/ \E e \in {<<3, 2>>, <<12, 6>>} :
          InvokeLine(constants.L6, <<0, 0>>, e)
    \/ \E radius \in {0, 2} : InvokeCircle(constants.L6, <<10, 5>>, radius)
    \/ \E b \in SeqBases, d \in Directions : InvokeShiftVertical(b, d)

SpecSeq == InitSeq /\ [][NextSeq]_vars

\* the slots of the buffer at buf
BufferSlots(buf) == buf..(buf + _buffer_size - 1)

(***************************************************************************)
(* C26.  shift_buffer_vertical(buf, 1) moves the 96 x 64 bitmap down by    *)
(* one row: afterwards pixel (x, y + 1) is what pixel (x, y) was, for x in *)
(* 0..95 and y in 0..62, and row 0 is as it was; with -1 it moves the      *)
(* bitmap up: pixel (x, y) is what pixel (x, y + 1) was and row 63 is as   *)
(* it was.  No slot outside buf .. buf + 767 changes.                      *)
(***************************************************************************)
C26_VerticalScroll ==
    (call.method = "shift_buffer_vertical" /\ call.args[2] \in {1, -1})
      => /\ call.err = "none"
         /\ \A x \in 0..95, y \in 0..62 :
               IF call.args[2] = 1
               THEN Pixel(memory, call.args[1], <<x, y + 1>>)
                      = Pixel(call.was, call.args[1], <<x, y>>)
               ELSE Pixel(memory, call.args[1], <<x, y>>)
                      = Pixel(call.was, call.args[1], <<x, y + 1>>)
         /\ \A x \in 0..95 :
               Pixel(memory, call.args[1],
                     <<x, IF call.args[2] = 1 THEN 0 ELSE 63>>)
                 = Pixel(call.was, call.args[1],
                         <<x, IF call.args[2] = 1 THEN 0 ELSE 63>>)
         /\ \A a \in (DOMAIN memory \cup DOMAIN call.was)
                        \ BufferSlots(call.args[1]) :
               mem_read(memory, a) = mem_read(call.was, a)

(***************************************************************************)
(* C30.  Every slot of memory holds a value in 0..255: at the start, and   *)
(* after any sequence of set_var_1, set_var_2, rect, clear_rect,           *)
(* inverse_rect, line, circle and shift_buffer_vertical calls, whatever    *)
(* the values stored (negative, or beyond a byte or a word) and wherever   *)
(* the rectangles lie, also after a call that raised.  (A slot the model's *)
(* memory does not list holds 0.)                                          *)
(***************************************************************************)
C30_ByteRange ==
    /\ \A a \in DOMAIN memory : memory[a] \in 0..255
    /\ DOMAIN memory \subseteq 0..(memory_size - 1)
    /\ call.method = "set_var_1" /\ call.err = "none"
         => mem_read(memory, call.args[1]) = call.args[2] % 256
    /\ call.method = "set_var_2" /\ call.err = "none"
         => /\ mem_read(memory, call.args[1]) = call.args[2] % 256
            /\ mem_read(memory, call.args[1] + 1)
                 = (call.args[2] \div 256) % 256

\* set_var_2 has stored 65536 + 511 as the bytes 255 and 1, on the memory
\* an earlier call left
C30_Witness ==
    /\ ncalls = 2
    /\ call.method = "set_var_2"
    /\ call.args = <<constants.L6 + 1, 65536 + 511>>
    /\ call.was # init_memory
    /\ mem_read(memory, constants.L6 + 1) = 255
    /\ mem_read(memory, constants.L6 + 2) = 1

(***************************************************************************)
(* One run of a program with ++, -- or ^^2.                                *)
(***************************************************************************)
SideSources ==
    {"n->A:Disp A++^^2:Disp A", "n->A:Disp A^^2",
     "n->A:A++->B:Disp A:Disp B",
     "n->{3000}:{3000}++->{3002}:Disp {3000}:Disp {3002}",
     "n->A:A++:Disp A", "n->A:A--:Disp A"}

SideTexts == {SideText(src, n) : src \in SideSources, n \in 0..SideSpan}

InitSide ==
    /\ Idle
    /\ pc = "top"
    /\ text \in SideTexts

NextSide ==
    \/ Execute
    \/ Step
    \/ RunEnd
    \/ EnterTry
    \/ StartConsole

SpecSide == InitSide /\ [][NextSide]_vars

\* the run of a program of the given source has ended
EndedSide(src) == pc = "wait" /\ text.src = src

(***************************************************************************)
(* C27.  The value of e^^2 is v * v, with v the value of e: n->A /         *)
(* Disp A^^2 displays n * n, and n->A / Disp A++^^2 / Disp A displays      *)
(* (n + 1) * (n + 1), the square of the value of A++, and then n + 1.      *)
(***************************************************************************)
C27_Squared ==
    /\ EndedSide("n->A:Disp A^^2")
         => Disps = <<DispLine(text.n * text.n)>>
    /\ EndedSide("n->A:Disp A++^^2:Disp A")
         => Disps = <<DispLine((text.n + 1) * (text.n + 1)),
                      DispLine(text.n + 1)>>

(***************************************************************************)
(* C28.  value -> ptr evaluates value once, whatever the width of ptr:     *)
(* n->A / A++->B leaves A = n + 1 and B = n + 1, and so does the same on   *)
(* the bytes {3000} and {3002}; A++ and A-- alone change A by 1.           *)
(***************************************************************************)
C28_SingleEvaluation ==
    /\ EndedSide("n->A:A++->B:Disp A:Disp B")
         => Disps = <<DispLine(text.n + 1), DispLine(text.n + 1)>>
    /\ EndedSide("n->{3000}:{3000}++->{3002}:Disp {3000}:Disp {3002}")
         => Disps = <<DispLine(text.n + 1), DispLine(text.n + 1)>>
    /\ EndedSide("n->A:A++:Disp A")
         => Disps = <<DispLine(text.n + 1)>>
    /\ EndedSide("n->A:A--:Disp A")
         => Disps = <<DispLine((text.n - 1) % 65536)>>

(***************************************************************************)
(* The REPL with its polling loop going on: the loop of test() that calls  *)
(* sanity_check and looks at _thread_text is a plain while True on the     *)
(* main thread, so that it goes round while it cannot break and breaks     *)
(* once it can.                                                            *)
(***************************************************************************)
FairRepl ==
    /\ FairSpec
    /\ WF_vars(\E d \in Ticks : PollBreak(d))
    /\ WF_vars(\E d \in Ticks : PollSpin(d))
    /\ WF_vars(\E d \in Ticks : PollExit(d))
    /\ WF_vars(Join)

(***************************************************************************)
(* C29.  Once the console thread has read a line and finished, empty or    *)
(* not, the main loop leaves its wait for the thread's text, and the next  *)
(* prompt can follow; the text it leaves with is the line the thread read. *)
(* (An empty line leaves _thread_text as '', which is what the loop takes  *)
(* for 'no text yet': it polls for ever and no prompt follows.)            *)
(***************************************************************************)
C29_ReplProgress ==
    /\ (pc = "wait" /\ thread = "done") ~> (pc # "wait")
    /\ [][(pc = "join" /\ pc' = "top")
            => (thread = "done" /\ text' = thread_text)]_vars

====
